---- MODULE Spec2Model ----
(***************************************************************************)
(* Capital Bikeshare pipeline: the schema normalizer (transform.py), the   *)
(* station dimension builder (stations.py) and the master table assembler  *)
(* (ingest.py).                                                            *)
(*                                                                         *)
(* Text is a tuple of one-character strings, so that the string operations *)
(* of the code (regex replace, int(), split, strptime) are computed.       *)
(* A cell of a table is a tagged record: NullV, I(n), S(text), F(n, d) or  *)
(* D(datetime).  A table is [columns, dtype, rows].                        *)
(***************************************************************************)
EXTENDS Integers, Sequences, FiniteSets, TLC

VARIABLES
    \* --- normalizer harness (SpecNorm) ---
    df_raw,        \* the raw table handed to normalize_trip_schema
    stations_arg,  \* the station reference table handed to it
    df_out,        \* its result: a table, Pending before the call, or Raised
    \* --- station dimension harness (SpecDim) ---
    trips_arg,     \* the trips handed to build_station_dimension
    stations_new,  \* its result: a table, Pending before the call, or Raised
    \* --- key classification harness (SpecKeys) ---
    key_listing,   \* the keys listed in the raw bucket and under MASTER_PREFIX/
    key_scan,      \* the loop of build_master_table over the raw keys
    \* --- monthly pull (SpecPull) ---
    raw_bucket,    \* the keys of the objects of RAW_BUCKET
    today,         \* datetime.now(): [y, mo]
    pull,          \* the pull_missing_files invocation in progress, and history
    \* --- time aggregation harness (SpecAgg) ---
    agg_trips,     \* the master trips build_time_aggregated scans
    dow_agg,       \* its day_of_week level: a table, Pending or Raised
    \* --- assembler (Spec) ---
    raw,           \* RAW_BUCKET: raw key -> table
    master,        \* PROC_BUCKET under MASTER_PREFIX: partition -> table
    stationsObj,   \* PROC_BUCKET object at STATIONS_KEY (NoObject if absent)
    run            \* the build_master_table invocation in progress, and history

normVars == <<df_raw, stations_arg, df_out>>
dimVars == <<trips_arg, stations_new>>
asmVars == <<raw, master, stationsObj, run>>
keyVars == <<key_listing, key_scan>>
pullVars == <<raw_bucket, today, pull>>
aggVars == <<agg_trips, dow_agg>>
laterVars == <<pullVars, aggVars>>
harnessVars == <<normVars, dimVars, keyVars, laterVars>>
vars == <<df_raw, stations_arg, df_out, trips_arg, stations_new, key_listing,
          key_scan, raw_bucket, today, pull, agg_trips, dow_agg,
          raw, master, stationsObj, run>>

-----------------------------------------------------------------------------
(* Cells *)

NullV == [k |-> "null"]
I(n) == [k |-> "i", v |-> n]
S(s) == [k |-> "s", v |-> s]
F(n, d) == [k |-> "f", v |-> <<n, d>>]
D(t) == [k |-> "d", v |-> t]

IsNull(c) == c.k = "null"

\* the float n/d, in lowest terms
RECURSIVE Gcd(_, _)
Gcd(a, b) == IF b = 0 THEN a ELSE Gcd(b, a % b)

Frac(n, d) == F(n \div Gcd(n, d), d \div Gcd(n, d))

Raised == [raised |-> TRUE]
NoObject == [absent |-> TRUE]
Pending == [pending |-> TRUE]
IsTable(t) == DOMAIN t = {"columns", "dtype", "rows"}

-----------------------------------------------------------------------------
(* Text <-> integer, as Python/polars compute them *)

Digits == <<"0", "1", "2", "3", "4", "5", "6", "7", "8", "9">>
DigitChars == {Digits[i] : i \in 1..10}

DigitVal(c) == (CHOOSE i \in 1..10 : Digits[i] = c) - 1

IsDigitText(s) == Len(s) > 0 /\ \A i \in 1..Len(s) : s[i] \in DigitChars

RECURSIVE TextToNat(_)
TextToNat(s) ==
    IF Len(s) = 0 THEN 0
    ELSE 10 * TextToNat(SubSeq(s, 1, Len(s) - 1)) + DigitVal(s[Len(s)])

RECURSIVE NatToText(_)
NatToText(n) ==
    IF n < 10 THEN <<Digits[n + 1]>>
    ELSE NatToText(n \div 10) \o <<Digits[(n % 10) + 1]>>

RECURSIVE ZeroPad(_, _)
ZeroPad(s, w) == IF Len(s) >= w THEN s ELSE ZeroPad(<<"0">> \o s, w)

EndsWith(s, suffix) ==
    /\ Len(s) >= Len(suffix)
    /\ SubSeq(s, Len(s) - Len(suffix) + 1, Len(s)) = suffix

-----------------------------------------------------------------------------
(* normalize_station_id: expr.cast(Utf8).str.replace(r"\.0$", "").cast(Int64) *)

\* cast(pl.Utf8) of one cell.  A float F(n, d) is the number n/d with d in
\* {1, 2}; it prints with one decimal ("31000.0", "31000.5").
CastUtf8(c) ==
    CASE c.k = "null" -> NullV
      [] c.k = "s" -> c
      [] c.k = "i" -> S(NatToText(c.v))
      [] c.k = "f" ->
            S(NatToText(c.v[1] \div c.v[2]) \o <<".">>
              \o (IF c.v[1] % c.v[2] = 0 THEN <<"0">> ELSE <<"5">>))
      [] OTHER -> Raised

\* the text as it is, for comparison with the replacement below
StripNothing(c) == c

\* str.replace(r"\.0$", ""): the pattern is anchored at the end of the text.
StripDotZero(c) ==
    IF c.k # "s" THEN c
    ELSE IF EndsWith(c.v, <<".", "0">>) THEN S(SubSeq(c.v, 1, Len(c.v) - 2))
    ELSE c

\* cast(pl.Int64), strict: a text that is not an integer raises.
CastInt64(c) ==
    CASE c.k = "null" -> NullV
      [] c.k = "i" -> c
      [] c.k = "s" ->
            IF IsDigitText(c.v) THEN I(TextToNat(c.v))
            ELSE IF Len(c.v) > 1 /\ c.v[1] = "-" /\ IsDigitText(Tail(c.v))
                 THEN I(0 - TextToNat(Tail(c.v)))
            ELSE Raised
      [] OTHER -> Raised

normalize_station_id(c) == CastInt64(StripDotZero(CastUtf8(c)))

-----------------------------------------------------------------------------
(* Datetimes: [y, mo, d, h, mi, s] *)

IsLeap(y) == (y % 4 = 0 /\ y % 100 # 0) \/ y % 400 = 0

DaysInMonth(y, m) ==
    IF m = 2 THEN (IF IsLeap(y) THEN 29 ELSE 28)
    ELSE IF m \in {4, 6, 9, 11} THEN 30 ELSE 31

\* days since 1970-01-01 (proleptic Gregorian calendar)
DaysFromCivil(y, m, d) ==
    LET yy == IF m <= 2 THEN y - 1 ELSE y
        era == yy \div 400
        yoe == yy - era * 400
        mp == IF m > 2 THEN m - 3 ELSE m + 9
        doy == (153 * mp + 2) \div 5 + d - 1
        doe == yoe * 365 + yoe \div 4 - yoe \div 100 + doy
    IN era * 146097 + doe - 719468

EpochSeconds(t) ==
    DaysFromCivil(t.y, t.mo, t.d) * 86400 + t.h * 3600 + t.mi * 60 + t.s

\* dt.weekday(): ISO weekday, Monday = 1 ... Sunday = 7
DtWeekday(t) == ((DaysFromCivil(t.y, t.mo, t.d) + 3) % 7) + 1

\* the text "%Y-%m-%d %H:%M:%S" of a datetime
DateText(y, mo, d, h, mi, s) ==
    ZeroPad(NatToText(y), 4) \o <<"-">> \o ZeroPad(NatToText(mo), 2) \o <<"-">>
    \o ZeroPad(NatToText(d), 2) \o <<" ">> \o ZeroPad(NatToText(h), 2) \o <<":">>
    \o ZeroPad(NatToText(mi), 2) \o <<":">> \o ZeroPad(NatToText(s), 2)

\* str.strptime(pl.Datetime, strict=False) of one cell: a text that does not
\* parse becomes null.
Strptime(c) ==
    IF c.k # "s" THEN NullV
    ELSE LET x == c.v
             num(a, b) == TextToNat(SubSeq(x, a, b))
         IN IF /\ Len(x) = 19
               /\ x[5] = "-" /\ x[8] = "-" /\ x[11] = " "
               /\ x[14] = ":" /\ x[17] = ":"
               /\ \A i \in (1..19) \ {5, 8, 11, 14, 17} : x[i] \in DigitChars
               /\ num(6, 7) \in 1..12
               /\ num(9, 10) \in 1..DaysInMonth(num(1, 4), num(6, 7))
               /\ num(12, 13) \in 0..23
               /\ num(15, 16) \in 0..59
               /\ num(18, 19) \in 0..59
            THEN D([y |-> num(1, 4), mo |-> num(6, 7), d |-> num(9, 10),
                    h |-> num(12, 13), mi |-> num(15, 16), s |-> num(18, 19)])
            ELSE NullV

\* (ended_at - started_at).dt.total_seconds().cast(pl.Int64)
DurationSeconds(ended, started) ==
    IF IsNull(ended) \/ IsNull(started) THEN NullV
    ELSE I(EpochSeconds(ended.v) - EpochSeconds(started.v))

-----------------------------------------------------------------------------
(* Tables (polars DataFrame): [columns, dtype, rows] *)

SeqToSet(q) == {q[i] : i \in 1..Len(q)}

HasCol(t, c) == c \in SeqToSet(t.columns)

\* df.rename(mapping): mapping is a function old name -> new name whose
\* domain is a set of columns of df; a duplicate resulting name raises.
Rename(t, mapping) ==
    IF ~IsTable(t) THEN Raised
    ELSE LET new(c) == IF c \in DOMAIN mapping THEN mapping[c] ELSE c
             cols == [i \in 1..Len(t.columns) |-> new(t.columns[i])]
             old(n) == CHOOSE c \in SeqToSet(t.columns) : new(c) = n
         IN IF Cardinality(SeqToSet(cols)) # Len(cols) THEN Raised
            ELSE [columns |-> cols,
                  dtype |-> [n \in SeqToSet(cols) |-> t.dtype[old(n)]],
                  rows |-> [i \in 1..Len(t.rows) |->
                               [n \in SeqToSet(cols) |-> t.rows[i][old(n)]]]]

\* df.with_columns(expr.alias(name)): replaces the column in place when it
\* exists, appends it otherwise.  A cell that evaluates to Raised raises.
WithColumn(t, name, dt, Cell(_)) ==
    IF ~IsTable(t) THEN Raised
    ELSE IF \E i \in 1..Len(t.rows) : Cell(t.rows[i]) = Raised THEN Raised
    ELSE LET cols == IF HasCol(t, name) THEN t.columns
                     ELSE Append(t.columns, name)
         IN [columns |-> cols,
             dtype |-> [n \in SeqToSet(cols) |-> IF n = name THEN dt ELSE t.dtype[n]],
             rows |-> [i \in 1..Len(t.rows) |->
                          [n \in SeqToSet(cols) |->
                              IF n = name THEN Cell(t.rows[i]) ELSE t.rows[i][n]]]]

\* df.join(right, on=key, how="left"), right holding key and the columns
\* a, b: a null key matches nothing; a right column whose name is taken on
\* the left is added under the suffix "_right".
RightSuffixed ==
    [start_lat |-> "start_lat_right", start_lng |-> "start_lng_right",
     end_lat |-> "end_lat_right", end_lng |-> "end_lng_right"]

RightName(t, c) == IF HasCol(t, c) THEN RightSuffixed[c] ELSE c

JoinMatches(row, right, key) ==
    SelectSeq(right.rows, LAMBDA r : ~IsNull(row[key]) /\ r[key] = row[key])

JoinedRow(row, cols, na, nb, x, y) ==
    [n \in SeqToSet(cols) |-> IF n = na THEN x ELSE IF n = nb THEN y ELSE row[n]]

RECURSIVE JoinRows(_, _, _, _, _, _)
JoinRows(rows, right, key, a, b, names) ==
    IF Len(rows) = 0 THEN <<>>
    ELSE LET row == Head(rows)
             m == JoinMatches(row, right, key)
             out == IF Len(m) = 0
                    THEN <<JoinedRow(row, names[1], names[2], names[3], NullV, NullV)>>
                    ELSE [j \in 1..Len(m) |->
                             JoinedRow(row, names[1], names[2], names[3],
                                       m[j][a], m[j][b])]
         IN out \o JoinRows(Tail(rows), right, key, a, b, names)

LeftJoin(t, right, key, a, b) ==
    IF ~IsTable(t) \/ ~IsTable(right) THEN Raised
    ELSE IF ~HasCol(t, key) \/ ~HasCol(right, key) THEN Raised
    ELSE IF t.dtype[key] # right.dtype[key] THEN Raised
    ELSE LET na == RightName(t, a)
             nb == RightName(t, b)
             cols == t.columns \o <<na, nb>>
         IN [columns |-> cols,
             dtype |-> [n \in SeqToSet(cols) |->
                           IF n = na THEN right.dtype[a]
                           ELSE IF n = nb THEN right.dtype[b] ELSE t.dtype[n]],
             rows |-> JoinRows(t.rows, right, key, a, b, <<cols, na, nb>>)]

\* df.select(names): a missing column raises.
Select(t, names) ==
    IF ~IsTable(t) THEN Raised
    ELSE IF \E i \in 1..Len(names) : ~HasCol(t, names[i]) THEN Raised
    ELSE [columns |-> names,
          dtype |-> [n \in SeqToSet(names) |-> t.dtype[n]],
          rows |-> [i \in 1..Len(t.rows) |->
                       [n \in SeqToSet(names) |-> t.rows[i][n]]]]

-----------------------------------------------------------------------------
(* transform.py *)

_PRE_RENAME ==
    ("Start date" :> "started_at") @@ ("End date" :> "ended_at")
    @@ ("Start station" :> "start_station_name")
    @@ ("End station" :> "end_station_name")
    @@ ("Start station number" :> "start_station_id")
    @@ ("End station number" :> "end_station_id")
    @@ ("Bike number" :> "bike_number") @@ ("Member type" :> "member_type")

_POST_RENAME ==
    [ride_id |-> "ride_id", rideable_type |-> "rideable_type",
     started_at |-> "started_at", ended_at |-> "ended_at",
     start_station_name |-> "start_station_name",
     end_station_name |-> "end_station_name",
     start_station_id |-> "start_station_id",
     end_station_id |-> "end_station_id",
     start_lat |-> "start_lat", start_lng |-> "start_lng",
     end_lat |-> "end_lat", end_lng |-> "end_lng",
     member_casual |-> "member_type"]

CANONICAL_COLUMNS ==
    <<"ride_id", "rideable_type", "started_at", "ended_at", "duration_sec",
      "start_station_id", "start_station_name", "start_lat", "start_lng",
      "end_station_id", "end_station_name", "end_lat", "end_lng",
      "bike_number", "member_type", "day", "hour", "weekday">>

\* {k: v for k, v in mapping.items() if k in df.columns}
PresentOnly(mapping, t) ==
    [k \in DOMAIN mapping \cap SeqToSet(t.columns) |-> mapping[k]]

\* lines 89-93
RenameStep(t) ==
    LET pre == IF \E c \in DOMAIN _PRE_RENAME : HasCol(t, c)
               THEN Rename(t, PresentOnly(_PRE_RENAME, t))
               ELSE t
    IN IF ~IsTable(pre) THEN Raised
       ELSE Rename(pre, PresentOnly(_POST_RENAME, pre))

\* .str.strptime on a column that is not text raises
ParseColumn(t, c) ==
    IF ~IsTable(t) THEN Raised
    ELSE IF t.dtype[c] # "Utf8" THEN Raised
    ELSE WithColumn(t, c, "Datetime", LAMBDA row : Strptime(row[c]))

DtPart(c, Part(_)) == IF IsNull(c) THEN NullV ELSE I(Part(c.v))

\* lines 96-105
StartedAtStep(t) ==
    IF ~IsTable(t) THEN Raised
    ELSE IF ~HasCol(t, "started_at") THEN t
    ELSE LET p == ParseColumn(t, "started_at")
             d == WithColumn(p, "day", "Int8",
                             LAMBDA row : DtPart(row["started_at"], LAMBDA x : x.d))
             h == WithColumn(d, "hour", "Int8",
                             LAMBDA row : DtPart(row["started_at"], LAMBDA x : x.h))
         IN WithColumn(h, "weekday", "Int8",
                       LAMBDA row : DtPart(row["started_at"], DtWeekday))

\* lines 107-108
EndedAtStep(t) ==
    IF ~IsTable(t) THEN Raised
    ELSE IF ~HasCol(t, "ended_at") THEN t
    ELSE ParseColumn(t, "ended_at")

\* the derivation without the test that duration_sec is absent
DurationAlways(t) ==
    IF ~IsTable(t) THEN Raised
    ELSE IF HasCol(t, "started_at") /\ HasCol(t, "ended_at")
    THEN WithColumn(t, "duration_sec", "Int64",
                    LAMBDA row : DurationSeconds(row["ended_at"], row["started_at"]))
    ELSE t

\* lines 110-119
DurationStep(t) ==
    IF ~IsTable(t) THEN Raised
    ELSE IF ~HasCol(t, "duration_sec") /\ HasCol(t, "started_at") /\ HasCol(t, "ended_at")
    THEN WithColumn(t, "duration_sec", "Int64",
                    LAMBDA row : DurationSeconds(row["ended_at"], row["started_at"]))
    ELSE t

\* lines 121-124
StationIdColumn(t, c) ==
    IF ~IsTable(t) THEN Raised
    ELSE IF ~HasCol(t, c) THEN t
    ELSE WithColumn(t, c, "Int64", LAMBDA row : normalize_station_id(row[c]))

StationIdStep(t) == StationIdColumn(StationIdColumn(t, "start_station_id"), "end_station_id")

\* stations.select(station_id.alias(idc), lat.alias(latc), lng.alias(lngc))
StationsSelect(st, idc, latc, lngc) ==
    Rename(Select(st, <<"station_id", "lat", "lng">>),
           [station_id |-> idc, lat |-> latc, lng |-> lngc])

\* lines 126-142
JoinStep(t, st) ==
    LeftJoin(LeftJoin(t, StationsSelect(st, "start_station_id", "start_lat", "start_lng"),
                      "start_station_id", "start_lat", "start_lng"),
             StationsSelect(st, "end_station_id", "end_lat", "end_lng"),
             "end_station_id", "end_lat", "end_lng")

\* the dtype of the null literal the fill loop adds for a column; NoFill
\* for the canonical columns no branch of the loop covers
NoFill == "none"

\* the fill with pl.lit(None) left uncast
FillUntyped(c) ==
    IF c \in {"ride_id", "rideable_type", "start_station_name",
              "end_station_name", "bike_number", "member_type",
              "start_lat", "start_lng", "end_lat", "end_lng",
              "started_at", "ended_at", "duration_sec"} THEN "Null"
    ELSE NoFill

FillDtype(c) ==
    IF c \in {"ride_id", "rideable_type", "start_station_name",
              "end_station_name", "bike_number", "member_type"} THEN "Utf8"
    ELSE IF c \in {"start_lat", "start_lng", "end_lat", "end_lng"} THEN "Float64"
    ELSE IF c \in {"started_at", "ended_at"} THEN "Datetime"
    ELSE IF c = "duration_sec" THEN "Int64"
    ELSE NoFill

\* lines 144-164, from the i-th canonical column on
RECURSIVE FillFrom(_, _)
FillFrom(t, i) ==
    IF ~IsTable(t) THEN Raised
    ELSE IF i > Len(CANONICAL_COLUMNS) THEN t
    ELSE LET c == CANONICAL_COLUMNS[i]
         IN IF ~HasCol(t, c) /\ FillDtype(c) # NoFill
            THEN FillFrom(WithColumn(t, c, FillDtype(c), LAMBDA row : NullV), i + 1)
            ELSE FillFrom(t, i + 1)

FillStep(t) == FillFrom(t, 1)

\* lines 77-167
normalize_trip_schema(df, st) ==
    Select(FillStep(JoinStep(StationIdStep(DurationStep(
               EndedAtStep(StartedAtStep(RenameStep(df))))), st)),
           CANONICAL_COLUMNS)

-----------------------------------------------------------------------------
(* Raw tables the normalizer is applied to *)

MaxRows == 2

Dot0 == <<".", "0">>

\* a station number n as the raw readers deliver it in a column of the
\* given dtype, in one of its forms
StationIdCell(dt, form, n) ==
    IF form = "null" THEN NullV
    ELSE IF dt = "Int64" THEN I(n)
    ELSE IF dt = "Float64" THEN F(n, 1)
    ELSE IF form = "dot0" THEN S(NatToText(n) \o Dot0)
    ELSE S(NatToText(n))

T0 == DateText(2019, 5, 1, 8, 0, 0)
T600 == DateText(2019, 5, 1, 8, 10, 0)
T700 == DateText(2019, 5, 1, 8, 11, 40)
TSun == DateText(2019, 6, 30, 23, 59, 59)
TNextDay == DateText(2019, 7, 1, 0, 9, 59)
TBad == <<"n", "/", "a">>

PreMembers == <<"Subscriber", "Registered", "Casual", "Member">>
PostMembers == <<"member", "member", "casual", "casual">>

\* what a row says, independently of the era's column names
RowSeeds ==
    { [st |-> T0, en |-> T700, sid |-> 31000, sform |-> "plain",
       eid |-> 31001, eform |-> "dot0", mem |-> 1, dur |-> 600, coord |-> TRUE],
      [st |-> T0, en |-> T600, sid |-> 31000, sform |-> "dot0",
       eid |-> 31000, eform |-> "plain", mem |-> 2, dur |-> 600, coord |-> FALSE],
      [st |-> TSun, en |-> TNextDay, sid |-> 31001, sform |-> "plain",
       eid |-> 31000, eform |-> "dot0", mem |-> 3, dur |-> 600, coord |-> TRUE],
      [st |-> TBad, en |-> T700, sid |-> 31002, sform |-> "dot0",
       eid |-> 31000, eform |-> "null", mem |-> 4, dur |-> 45, coord |-> TRUE],
      [st |-> T0, en |-> TBad, sid |-> 31000, sform |-> "null",
       eid |-> 31002, eform |-> "plain", mem |-> 1, dur |-> 600, coord |-> FALSE],
      [st |-> T600, en |-> T0, sid |-> 31000, sform |-> "plain",
       eid |-> 31000, eform |-> "plain", mem |-> 3, dur |-> 0, coord |-> TRUE] }

Eras == {"pre", "post"}
IdDtypes == {"Int64", "Utf8", "Float64"}
Variants == {"full", "no_end", "no_start", "dur_sec", "bare", "no_ids"}

Lat(n) == Frac(389000 + (n % 10), 10000)
Lng(n) == Frac(770000 + (n % 10), 10000)

\* every column a raw row of the era can carry: name -> <<dtype, cell>>
PreCells(seed, idt) ==
    ("Duration" :> <<"Int64", I(seed.dur)>>)
    @@ ("Start date" :> <<"Utf8", S(seed.st)>>)
    @@ ("End date" :> <<"Utf8", S(seed.en)>>)
    @@ ("Start station number" :> <<idt, StationIdCell(idt, seed.sform, seed.sid)>>)
    @@ ("Start station" :> <<"Utf8", S("Eckington Pl & Q St NE")>>)
    @@ ("End station number" :> <<idt, StationIdCell(idt, seed.eform, seed.eid)>>)
    @@ ("End station" :> <<"Utf8", S("Lincoln Memorial")>>)
    @@ ("Bike number" :> <<"Utf8", S("W00123")>>)
    @@ ("Member type" :> <<"Utf8", S(PreMembers[seed.mem])>>)
    @@ ("duration_sec" :> <<"Int64", I(seed.dur)>>)

PostCells(seed, idt) ==
    ("ride_id" :> <<"Utf8", S("A1B2")>>)
    @@ ("rideable_type" :> <<"Utf8", S("classic_bike")>>)
    @@ ("started_at" :> <<"Utf8", S(seed.st)>>)
    @@ ("ended_at" :> <<"Utf8", S(seed.en)>>)
    @@ ("start_station_name" :> <<"Utf8", S("Eckington Pl & Harry Thomas Way")>>)
    @@ ("start_station_id" :> <<idt, StationIdCell(idt, seed.sform, seed.sid)>>)
    @@ ("end_station_name" :> <<"Utf8", S("Lincoln Memorial")>>)
    @@ ("end_station_id" :> <<idt, StationIdCell(idt, seed.eform, seed.eid)>>)
    @@ ("start_lat" :> <<"Float64", IF seed.coord THEN Lat(seed.sid) ELSE NullV>>)
    @@ ("start_lng" :> <<"Float64", IF seed.coord THEN Lng(seed.sid) ELSE NullV>>)
    @@ ("end_lat" :> <<"Float64", IF seed.coord THEN Lat(seed.eid) ELSE NullV>>)
    @@ ("end_lng" :> <<"Float64", IF seed.coord THEN Lng(seed.eid) ELSE NullV>>)
    @@ ("member_casual" :> <<"Utf8", S(PostMembers[seed.mem])>>)
    @@ ("duration_sec" :> <<"Int64", I(seed.dur)>>)

PreFull ==
    <<"Duration", "Start date", "End date", "Start station number",
      "Start station", "End station number", "End station", "Bike number",
      "Member type">>

PostFull ==
    <<"ride_id", "rideable_type", "started_at", "ended_at",
      "start_station_name", "start_station_id", "end_station_name",
      "end_station_id", "start_lat", "start_lng", "end_lat", "end_lng",
      "member_casual">>

Without(cols, drop) == SelectSeq(cols, LAMBDA c : c \notin drop)

\* the columns of a raw table of an era, by variant
RawColumns(era, variant) ==
    LET full == IF era = "pre" THEN PreFull ELSE PostFull
        st == IF era = "pre" THEN "Start date" ELSE "started_at"
        en == IF era = "pre" THEN "End date" ELSE "ended_at"
        si == IF era = "pre" THEN "Start station number" ELSE "start_station_id"
        ei == IF era = "pre" THEN "End station number" ELSE "end_station_id"
        mt == IF era = "pre" THEN "Member type" ELSE "member_casual"
    IN CASE variant = "full" -> full
         [] variant = "no_end" -> Without(full, {en})
         [] variant = "no_start" -> Without(full, {st})
         [] variant = "dur_sec" -> Append(full, "duration_sec")
         [] variant = "bare" -> <<st, en, si, ei, mt>>
         [] variant = "no_ids" -> Without(full, {si, ei})

RawTable(era, variant, idt, seeds) ==
    LET cols == RawColumns(era, variant)
        cells(seed) == IF era = "pre" THEN PreCells(seed, idt) ELSE PostCells(seed, idt)
    IN [columns |-> cols,
        dtype |-> [c \in SeqToSet(cols) |-> cells(CHOOSE x \in RowSeeds : TRUE)[c][1]],
        rows |-> [i \in 1..Len(seeds) |-> [c \in SeqToSet(cols) |-> cells(seeds[i])[c][2]]]]

SeedLists == UNION {[1..n -> RowSeeds] : n \in 1..MaxRows}

StationColumns ==
    <<"station_id", "station_name", "lat", "lng", "earliest_seen", "latest_seen">>

StationDtype ==
    [station_id |-> "Int64", station_name |-> "Utf8", lat |-> "Float64",
     lng |-> "Float64", earliest_seen |-> "Datetime", latest_seen |-> "Datetime"]

StationRow(n, name) ==
    [station_id |-> I(n), station_name |-> S(name), lat |-> Lat(n), lng |-> Lng(n),
     earliest_seen |-> Strptime(S(T0)), latest_seen |-> Strptime(S(T0))]

NoStations == [columns |-> StationColumns, dtype |-> StationDtype, rows |-> <<>>]

OneStation ==
    [columns |-> StationColumns, dtype |-> StationDtype,
     rows |-> <<StationRow(31000, "Eckington Pl & Q St NE")>>]

StationArgs == {NoStations, OneStation}

-----------------------------------------------------------------------------
(* The normalizer applied to one raw table *)

AsmIdle ==
    /\ raw = <<>>
    /\ master = <<>>
    /\ stationsObj = NoObject
    /\ run = <<>>

NormIdle ==
    /\ df_raw = NoStations
    /\ stations_arg = NoStations
    /\ df_out = Pending

DimIdle ==
    /\ trips_arg = NoStations
    /\ stations_new = Pending

KeysIdle ==
    /\ key_listing = [raw |-> {}, master |-> {}]
    /\ key_scan = Pending

PullIdle ==
    /\ raw_bucket = {}
    /\ today = [y |-> 0, mo |-> 0]
    /\ pull = [pc |-> "idle"]

AggIdle ==
    /\ agg_trips = NoStations
    /\ dow_agg = Pending

LaterIdle == PullIdle /\ AggIdle

InitNorm ==
    /\ \E era \in Eras, variant \in Variants, idt \in IdDtypes, seeds \in SeedLists :
          df_raw = RawTable(era, variant, idt, seeds)
    /\ stations_arg \in StationArgs
    /\ df_out = Pending
    /\ AsmIdle
    /\ DimIdle
    /\ KeysIdle
    /\ LaterIdle

Normalize ==
    /\ df_out = Pending
    /\ df_out' = normalize_trip_schema(df_raw, stations_arg)
    /\ UNCHANGED <<df_raw, stations_arg, dimVars, keyVars, laterVars, asmVars>>

NextNorm == Normalize

SpecNorm == InitNorm /\ [][NextNorm]_vars

-----------------------------------------------------------------------------
(* Properties of the normalizer (checked under SpecNorm) *)

Called == df_out # Pending

EraOf(t) == IF \E c \in DOMAIN _PRE_RENAME : HasCol(t, c) THEN "pre" ELSE "post"

OtherEra(era) == IF era = "pre" THEN "post" ELSE "pre"

\* the raw name of a canonical column in the era of t
RawName(t, c) ==
    IF EraOf(t) = "pre"
    THEN (CHOOSE k \in DOMAIN _PRE_RENAME : _PRE_RENAME[k] = c)
    ELSE (CHOOSE k \in DOMAIN _POST_RENAME : _POST_RENAME[k] = c)

\* the columns without which the call raises
RequiredPresent(t) ==
    /\ HasCol(t, RawName(t, "started_at"))
    /\ HasCol(t, RawName(t, "start_station_id"))
    /\ HasCol(t, RawName(t, "end_station_id"))

RowsAligned == IsTable(df_out) /\ Len(df_out.rows) = Len(df_raw.rows)

ReferenceSeed == CHOOSE x \in RowSeeds : x.st = T0 /\ x.en = T700

Text31000 == <<"3", "1", "0", "0", "0">>

\* the three raw representations of station number n
IdForms(n) == {I(n), S(NatToText(n)), S(NatToText(n) \o Dot0)}

StationNumbers == {31000, 31001, 31002}

\* C7: the native integer, the text of the integer and the text of the float
\* with a trailing ".0" normalize to the same integer (31000, "31000" and
\* "31000.0" to 31000), in start_station_id and in end_station_id, and the call
\* does not raise on them.
C7_StationIdForms ==
    (Called /\ RequiredPresent(df_raw)) =>
        /\ RowsAligned
        /\ \A i \in 1..Len(df_raw.rows) :
             \A c \in {"start_station_id", "end_station_id"} :
                LET x == df_raw.rows[i][RawName(df_raw, c)]
                    y == df_out.rows[i][c]
                IN /\ x \in {I(31000), S(Text31000), S(Text31000 \o <<".", "0">>)}
                        => y = I(31000)
                   /\ \A n \in StationNumbers : x \in IdForms(n) => y = I(n)

C7_Witness ==
    /\ RowsAligned
    /\ EraOf(df_raw) = "pre"
    /\ \E i \in 1..Len(df_raw.rows) :
          /\ df_raw.rows[i]["Start station number"] = S(Text31000 \o <<".", "0">>)
          /\ df_raw.rows[i]["End station number"] = S(Text31000)
          /\ df_out.rows[i]["start_station_id"] = I(31000)
          /\ df_out.rows[i]["end_station_id"] = I(31000)

\* C8: duration_sec is derived as ended_at - started_at in seconds only when
\* the raw table has no duration_sec column; a supplied duration_sec is kept
\* (600 stays 600 when the timestamps are 700 seconds apart).
C8_DurationNotOverwritten ==
    IsTable(df_out) =>
        /\ RowsAligned
        /\ \A i \in 1..Len(df_raw.rows) :
             LET r == df_raw.rows[i]
                 st == RawName(df_raw, "started_at")
                 en == RawName(df_raw, "ended_at")
                 got == df_out.rows[i]["duration_sec"]
             IN IF HasCol(df_raw, "duration_sec") THEN got = r["duration_sec"]
                ELSE IF HasCol(df_raw, en)
                THEN /\ got = DurationSeconds(Strptime(r[en]), Strptime(r[st]))
                     /\ (r[st] = S(T0) /\ r[en] = S(T700)) => got = I(700)
                     /\ (r[st] = S(TBad) \/ r[en] = S(TBad)) => got = NullV
                ELSE got = NullV

C8_Witness ==
    /\ RowsAligned
    /\ HasCol(df_raw, "duration_sec")
    /\ \E i \in 1..Len(df_raw.rows) :
          /\ df_raw.rows[i][RawName(df_raw, "started_at")] = S(T0)
          /\ df_raw.rows[i][RawName(df_raw, "ended_at")] = S(T700)
          /\ df_raw.rows[i]["duration_sec"] = I(600)
          /\ df_out.rows[i]["duration_sec"] = I(600)

\* C9: a pre-2020 row carrying the numeric "Duration" column normalizes to a
\* row whose duration_sec is the supplied Duration, whose start_station_id is
\* the station number as an integer and whose started_at is a timestamp.
C9_DurationColumnKept ==
    (IsTable(df_out) /\ HasCol(df_raw, "Duration") /\ ~HasCol(df_raw, "duration_sec")) =>
        /\ RowsAligned
        /\ \A i \in 1..Len(df_raw.rows) :
             /\ df_out.rows[i]["duration_sec"] = df_raw.rows[i]["Duration"]
             /\ df_raw.rows[i]["Start station number"] \in IdForms(31000)
                    => df_out.rows[i]["start_station_id"] = I(31000)
             /\ df_raw.rows[i]["Start date"] = S(T0)
                    => df_out.rows[i]["started_at"] = Strptime(S(T0))

\* C10: "Registered" and "Subscriber" become "Member"; "Casual" and the
\* values of member_casual pass through unchanged under the name member_type.
C10_MemberVocabulary ==
    (IsTable(df_out) /\ HasCol(df_raw, RawName(df_raw, "member_type"))) =>
        /\ RowsAligned
        /\ \A i \in 1..Len(df_raw.rows) :
             LET x == df_raw.rows[i][RawName(df_raw, "member_type")]
                 y == df_out.rows[i]["member_type"]
             IN IF EraOf(df_raw) = "pre" /\ x \in {S("Registered"), S("Subscriber")}
                THEN y = S("Member")
                ELSE y = x

-----------------------------------------------------------------------------
(* Text operations of ingest.py (Python str methods) *)

\* the characters of keys, in code point order
Alphabet ==
    <<"-", ".", "/", "0", "1", "2", "3", "4", "5", "6", "7", "8", "9", "=",
      "A", "B", "C", "D", "E", "F", "G", "H", "I", "J", "K", "L", "M", "N",
      "O", "P", "Q", "R", "S", "T", "U", "V", "W", "X", "Y", "Z", "_",
      "a", "b", "c", "d", "e", "f", "g", "h", "i", "j", "k", "l", "m", "n",
      "o", "p", "q", "r", "s", "t", "u", "v", "w", "x", "y", "z">>

Ord(c) == CHOOSE i \in 1..Len(Alphabet) : Alphabet[i] = c

\* a < b for Python strings
RECURSIVE TextLess(_, _)
TextLess(a, b) ==
    IF Len(b) = 0 THEN FALSE
    ELSE IF Len(a) = 0 THEN TRUE
    ELSE IF Head(a) # Head(b) THEN Ord(Head(a)) < Ord(Head(b))
    ELSE TextLess(Tail(a), Tail(b))

StartsWith(s, prefix) ==
    Len(s) >= Len(prefix) /\ SubSeq(s, 1, Len(prefix)) = prefix

\* s.find(pat) + 1: the position of the first occurrence, 0 if none
Find(s, pat) ==
    LET hits == {i \in 1..(Len(s) - Len(pat) + 1) : SubSeq(s, i, i + Len(pat) - 1) = pat}
    IN IF hits = {} THEN 0 ELSE CHOOSE i \in hits : \A j \in hits : i <= j

\* pat in s
Contains(s, pat) == Find(s, pat) # 0

\* s.split(pat)
RECURSIVE Split(_, _)
Split(s, pat) ==
    LET i == Find(s, pat)
    IN IF i = 0 THEN <<s>>
       ELSE <<SubSeq(s, 1, i - 1)>> \o Split(SubSeq(s, i + Len(pat), Len(s)), pat)

\* s.replace(pat, "")
RECURSIVE Remove(_, _)
Remove(s, pat) ==
    LET i == Find(s, pat)
    IN IF i = 0 THEN s
       ELSE SubSeq(s, 1, i - 1) \o Remove(SubSeq(s, i + Len(pat), Len(s)), pat)

\* int(s): [ok, v]; ok is FALSE where Python raises ValueError
PyInt(s) ==
    IF IsDigitText(s) THEN [ok |-> TRUE, v |-> TextToNat(s)]
    ELSE IF Len(s) > 1 /\ s[1] = "-" /\ IsDigitText(Tail(s))
         THEN [ok |-> TRUE, v |-> 0 - TextToNat(Tail(s))]
    ELSE [ok |-> FALSE, v |-> 0]

\* f"{x}" of an int or None
PyStr(c) == IF IsNull(c) THEN <<"N", "o", "n", "e">> ELSE NatToText(c.v)

DotCsv == <<".", "c", "s", "v">>
DotParquet == <<".", "p", "a", "r", "q", "u", "e", "t">>
MASTER_PREFIX == <<"m", "a", "s", "t", "e", "r", "/", "t", "r", "i", "p", "s">>
STATIONS_KEY == <<"d", "i", "m", "e", "n", "s", "i", "o", "n", "s", "/", "s", "t", "a", "t", "i", "o", "n", "s", ".", "p", "a", "r", "q", "u", "e", "t">>
YearEq == <<"y", "e", "a", "r", "=">>
MonthEq == <<"m", "o", "n", "t", "h", "=">>
PartFile == <<"p", "a", "r", "t", ".", "p", "a", "r", "q", "u", "e", "t">>

-----------------------------------------------------------------------------
(* ingest.py: keys *)

\* the classification with every other all-digit stem taken for a bulk year
KeyKindAnyLength(key) ==
    LET parts == Split(key, <<"/">>)
        name == parts[Len(parts)]
        stem == Remove(Remove(name, DotCsv), DotParquet)
    IN IF IsDigitText(stem) /\ Len(stem) = 6
       THEN <<"monthly", I(TextToNat(SubSeq(stem, 1, 4))), I(TextToNat(SubSeq(stem, 5, 6)))>>
       ELSE IF IsDigitText(stem)
       THEN <<"bulk", I(TextToNat(stem)), NullV>>
       ELSE <<"ignore", NullV, NullV>>

\* the classification with the month read from stem[4:5]
KeyKindShortMonth(key) ==
    LET parts == Split(key, <<"/">>)
        name == parts[Len(parts)]
        stem == Remove(Remove(name, DotCsv), DotParquet)
    IN IF IsDigitText(stem) /\ Len(stem) = 6
       THEN <<"monthly", I(TextToNat(SubSeq(stem, 1, 4))), I(TextToNat(SubSeq(stem, 5, 5)))>>
       ELSE IF IsDigitText(stem) /\ Len(stem) = 4
       THEN <<"bulk", I(TextToNat(stem)), NullV>>
       ELSE <<"ignore", NullV, NullV>>

\* lines 105-121: <<kind, year, month>>
_key_kind(key) ==
    LET parts == Split(key, <<"/">>)
        name == parts[Len(parts)]
        stem == Remove(Remove(name, DotCsv), DotParquet)
    IN IF IsDigitText(stem) /\ Len(stem) = 6
       THEN <<"monthly", I(TextToNat(SubSeq(stem, 1, 4))), I(TextToNat(SubSeq(stem, 5, 6)))>>
       ELSE IF IsDigitText(stem) /\ Len(stem) = 4
       THEN <<"bulk", I(TextToNat(stem)), NullV>>
       ELSE <<"ignore", NullV, NullV>>

\* lines 153-156 and 179-182, without the scheme and bucket
PartUri(y, m) ==
    MASTER_PREFIX \o <<"/">> \o YearEq \o PyStr(y) \o <<"/">> \o MonthEq \o PyStr(m)
    \o <<"/">> \o PartFile

\* a listing in which no partition is recognised
NoPartitionsFound(keys) == {}

\* what a set-valued call yields when it raises
RaisedSet == {<<"raised">>}

\* the enumeration without the try/except around int()
ExistingPartitionsStrict(keys) ==
    LET year(k) == PyInt(Split(Split(k, YearEq)[2], <<"/">>)[1])
        month(k) == PyInt(Split(Split(k, MonthEq)[2], <<"/">>)[1])
        seen == {x \in keys : /\ StartsWith(x, MASTER_PREFIX \o <<"/">>)
                              /\ Contains(x, YearEq)
                              /\ Contains(x, MonthEq)
                              /\ EndsWith(x, DotParquet)}
    IN IF \E k \in seen : ~year(k).ok \/ ~month(k).ok THEN RaisedSet
       ELSE {<<I(year(k).v), I(month(k).v)>> : k \in seen}

\* lines 63-78 over the keys listed under MASTER_PREFIX/
_existing_master_partitions(keys) ==
    LET parsed(k) ==
            LET y == PyInt(Split(Split(k, YearEq)[2], <<"/">>)[1])
                m == PyInt(Split(Split(k, MonthEq)[2], <<"/">>)[1])
            IN IF y.ok /\ m.ok THEN {<<I(y.v), I(m.v)>>} ELSE {}
    IN UNION {parsed(k) : k \in {x \in keys : /\ StartsWith(x, MASTER_PREFIX \o <<"/">>)
                                              /\ Contains(x, YearEq)
                                              /\ Contains(x, MonthEq)
                                              /\ EndsWith(x, DotParquet)}}

\* the keys in descending order
RECURSIVE SortedKeysDescending(_)
SortedKeysDescending(keys) ==
    IF keys = {} THEN <<>>
    ELSE LET greatest == CHOOSE k \in keys : \A o \in keys \ {k} : TextLess(o, k)
         IN <<greatest>> \o SortedKeysDescending(keys \ {greatest})

\* sorted(keys) as a sequence
RECURSIVE SortedKeys(_)
SortedKeys(keys) ==
    IF keys = {} THEN <<>>
    ELSE LET least == CHOOSE k \in keys : \A o \in keys \ {k} : TextLess(k, o)
         IN <<least>> \o SortedKeys(keys \ {least})

\* lines 96-100
RawKeys(store) ==
    {k \in DOMAIN store : EndsWith(k, DotCsv) \/ EndsWith(k, DotParquet)}

-----------------------------------------------------------------------------
(* stations.py *)

\* the sum of a sequence of float cells, as a fraction <<n, d>>
RECURSIVE FracSum(_)
FracSum(q) ==
    IF Len(q) = 0 THEN <<0, 1>>
    ELSE LET r == FracSum(Tail(q))
             x == Head(q).v
             d == (x[2] * r[2]) \div Gcd(x[2], r[2])
         IN <<x[1] * (d \div x[2]) + r[1] * (d \div r[2]), d>>

\* pl.col(c).mean(): nulls are left out; null when nothing is left
Mean(q) ==
    LET vals == SelectSeq(q, LAMBDA c : ~IsNull(c))
    IN IF Len(vals) = 0 THEN NullV
       ELSE Frac(FracSum(vals)[1], FracSum(vals)[2] * Len(vals))

\* min() / max() of datetime cells: nulls are left out
MinSeen(cells) ==
    LET vals == {c \in cells : ~IsNull(c)}
    IN IF vals = {} THEN NullV
       ELSE CHOOSE c \in vals : \A o \in vals : EpochSeconds(c.v) <= EpochSeconds(o.v)

MaxSeen(cells) ==
    LET vals == {c \in cells : ~IsNull(c)}
    IN IF vals = {} THEN NullV
       ELSE CHOOSE c \in vals : \A o \in vals : EpochSeconds(c.v) >= EpochSeconds(o.v)

\* the observations of the start role alone
StartObservations(trips) ==
    [i \in 1..Len(trips.rows) |->
        [station_id |-> normalize_station_id(trips.rows[i]["start_station_id"]),
         station_name |-> trips.rows[i]["start_station_name"],
         lat |-> trips.rows[i]["start_lat"], lng |-> trips.rows[i]["start_lng"],
         seen_at |-> trips.rows[i]["started_at"]]]

\* lines 33-54: one observation per trip and role
Observations(trips) ==
    [i \in 1..Len(trips.rows) |->
        [station_id |-> normalize_station_id(trips.rows[i]["start_station_id"]),
         station_name |-> trips.rows[i]["start_station_name"],
         lat |-> trips.rows[i]["start_lat"], lng |-> trips.rows[i]["start_lng"],
         seen_at |-> trips.rows[i]["started_at"]]]
    \o
    [i \in 1..Len(trips.rows) |->
        [station_id |-> normalize_station_id(trips.rows[i]["end_station_id"]),
         station_name |-> trips.rows[i]["end_station_name"],
         lat |-> trips.rows[i]["end_lat"], lng |-> trips.rows[i]["end_lng"],
         seen_at |-> trips.rows[i]["started_at"]]]

\* lines 55-64: one row per (station_id, station_name)
Groups(obs) ==
    LET kept == SelectSeq(obs, LAMBDA o : ~IsNull(o.station_id))
        keys == {<<kept[i].station_id, kept[i].station_name>> : i \in 1..Len(kept)}
        of(k) == SelectSeq(kept, LAMBDA o : o.station_id = k[1] /\ o.station_name = k[2])
        col(q, c) == [i \in 1..Len(q) |-> q[i][c]]
    IN {[station_id |-> k[1], station_name |-> k[2],
         lat |-> Mean(col(of(k), "lat")), lng |-> Mean(col(of(k), "lng")),
         earliest_seen |-> MinSeen(SeqToSet(col(of(k), "seen_at"))),
         latest_seen |-> MaxSeen(SeqToSet(col(of(k), "seen_at")))] : k \in keys}

\* g sorts before h under sort("latest_seen", descending=True): nulls first
SortsBefore(g, h) ==
    IF IsNull(g.latest_seen) THEN ~IsNull(h.latest_seen)
    ELSE IF IsNull(h.latest_seen) THEN FALSE
    ELSE EpochSeconds(g.latest_seen.v) > EpochSeconds(h.latest_seen.v)

\* lines 65-67: the groups of a station_id that unique(keep="first") can keep;
\* the order of groups that tie on latest_seen is not defined
FirstOf(groups, id) ==
    {g \in groups : /\ g.station_id = id
                    /\ \A h \in groups : h.station_id = id => ~SortsBefore(h, g)}

RECURSIVE RowsById(_, _)
RowsById(ids, pick) ==
    IF ids = {} THEN <<>>
    ELSE LET least == CHOOSE i \in ids : \A j \in ids : i.v <= j.v
         IN <<pick[least]>> \o RowsById(ids \ {least}, pick)

\* lines 8-74: the tables the call can return (rows listed by station_id,
\* the order of the result being undefined), or {Raised}
build_station_dimension(trips) ==
    IF ~IsTable(trips) THEN {Raised}
    ELSE IF \E i \in 1..Len(trips.rows) :
               \/ normalize_station_id(trips.rows[i]["start_station_id"]) = Raised
               \/ normalize_station_id(trips.rows[i]["end_station_id"]) = Raised
    THEN {Raised}
    ELSE LET groups == Groups(Observations(trips))
             ids == {g.station_id : g \in groups}
             picks == {pick \in [ids -> groups] : \A id \in ids : pick[id] \in FirstOf(groups, id)}
         IN IF StationDtype["station_id"] # "Int64" THEN {Raised}
            ELSE {[columns |-> StationColumns, dtype |-> StationDtype,
                   rows |-> RowsById(ids, pick)] : pick \in picks}

-----------------------------------------------------------------------------
(* ingest.py: build_master_table *)

MaxRuns == 2

\* lines 165-172: the keys of df.partition_by(["_year", "_month"])
YearMonth(row) ==
    IF IsNull(row["started_at"]) THEN <<NullV, NullV>>
    ELSE <<I(row["started_at"].v.y), I(row["started_at"].v.mo)>>

GroupKeys(df) == {YearMonth(df.rows[i]) : i \in 1..Len(df.rows)}

\* every group handed the whole table
SubDfWhole(df, g) == df

SubDf(df, g) == [df EXCEPT !.rows = SelectSeq(df.rows, LAMBDA r : YearMonth(r) = g)]

\* line 174: sorted() compares None with an int when a null key stands next
\* to another key, and raises TypeError
SortRaises(groups) == <<NullV, NullV>> \in groups /\ Cardinality(groups) > 1

RECURSIVE SortedGroups(_)
SortedGroups(groups) ==
    IF groups = {} THEN <<>>
    ELSE LET before(a, b) == a[1].v < b[1].v \/ (a[1].v = b[1].v /\ a[2].v <= b[2].v)
             least == IF Cardinality(groups) = 1 THEN CHOOSE g \in groups : TRUE
                      ELSE CHOOSE g \in groups : \A o \in groups : before(g, o)
         IN <<least>> \o SortedGroups(groups \ {least})

\* line 197: the objects the glob year=*/month=*/part.parquet matches
GlobMatches(k) ==
    LET segs == Split(k, <<"/">>)
        pre == Split(MASTER_PREFIX, <<"/">>)
    IN /\ Len(segs) = Len(pre) + 3
       /\ SubSeq(segs, 1, Len(pre)) = pre
       /\ StartsWith(segs[Len(pre) + 1], YearEq)
       /\ StartsWith(segs[Len(pre) + 2], MonthEq)
       /\ segs[Len(pre) + 3] = PartFile

\* the objects the rebuild of the station dimension reads: every partition
\* of the store, whichever run wrote it
RebuildSource(store) == {k \in DOMAIN store : GlobMatches(k)}

RECURSIVE ConcatRows(_, _)
ConcatRows(store, keyseq) ==
    IF Len(keyseq) = 0 THEN <<>>
    ELSE store[Head(keyseq)].rows \o ConcatRows(store, Tail(keyseq))

\* a scan of one matched object only
ScanOnePartition(store, keys) ==
    IF keys = {} THEN Raised ELSE store[CHOOSE k \in keys : TRUE]

\* lines 196-198: scan_parquet over the matched objects; no object raises
ScanMaster(store, keys) ==
    IF keys = {} THEN Raised
    ELSE [columns |-> CANONICAL_COLUMNS,
          dtype |-> store[CHOOSE k \in keys : TRUE].dtype,
          rows |-> ConcatRows(store, SortedKeys(keys))]

Running == run.pc \in {"files", "bulk"}

Write(uri, src) == [key |-> uri, src |-> src]

\* a write that adds the rows to the object already stored
PutAppend(store, k, obj) ==
    [x \in DOMAIN store \cup {k} |->
        IF x # k THEN store[x]
        ELSE IF k \in DOMAIN store THEN [obj EXCEPT !.rows = store[k].rows \o @]
        ELSE obj]

\* a write that leaves the written object alone in the store
PutAlone(store, k, obj) == [x \in {k} |-> obj]

Put(store, k, obj) == [x \in DOMAIN store \cup {k} |-> IF x = k THEN obj ELSE store[x]]

\* a skip of every partition, and of none
SkipsAlways(mm, already, g) == mm

SkipsNever(mm, already, g) == FALSE

\* line 149 and line 175

Skips(mm, already, g) == mm /\ g \in already

-----------------------------------------------------------------------------
(* The raw store the assembler runs over *)

K_BULK == <<"2", "0", "1", "5", ".", "p", "a", "r", "q", "u", "e", "t">>
K_JAN == <<"2", "0", "1", "5", "0", "1", ".", "c", "s", "v">>
K_NOTES == <<"n", "o", "t", "e", "s", ".", "c", "s", "v">>

RawKeyUniverse == {K_BULK, K_JAN, K_NOTES}

Trip(st, en, sid, eid, coord) ==
    [st |-> st, en |-> en, sid |-> sid, sform |-> "dot0", eid |-> eid,
     eform |-> "plain", mem |-> 1, dur |-> 600, coord |-> coord]

Jan15 == Trip(DateText(2015, 1, 15, 8, 0, 0), DateText(2015, 1, 15, 8, 11, 40), 31000, 31001, FALSE)
Feb15 == Trip(DateText(2015, 2, 10, 17, 30, 0), DateText(2015, 2, 10, 17, 40, 0), 31001, 31000, FALSE)
Mar15 == Trip(DateText(2015, 3, 1, 0, 0, 0), DateText(2015, 3, 1, 0, 5, 0), 31000, 31000, FALSE)
NoDate == Trip(TBad, TBad, 31000, 31001, FALSE)
Jan15b == Trip(DateText(2015, 1, 31, 23, 59, 59), DateText(2015, 2, 1, 0, 9, 59), 31002, 31000, TRUE)
Dec14 == Trip(DateText(2014, 12, 31, 23, 55, 0), DateText(2015, 1, 1, 0, 5, 0), 31001, 31000, FALSE)
Feb15b == Trip(DateText(2015, 2, 1, 0, 0, 3), DateText(2015, 2, 1, 0, 9, 59), 31002, 31000, TRUE)

\* the tables a raw key can hold
RawContents(k) ==
    IF k = K_BULK
    THEN {RawTable("pre", "full", "Utf8", <<Jan15, Feb15, Mar15>>),
          RawTable("pre", "full", "Utf8", <<NoDate>>),
          RawTable("pre", "full", "Utf8", <<Jan15, NoDate>>),
          RawTable("pre", "full", "Utf8", <<Dec14>>)}
    ELSE IF k = K_JAN
    THEN {RawTable("post", "full", "Utf8", <<Jan15b>>),
          RawTable("post", "full", "Utf8", <<Jan15b, Feb15b>>),
          RawTable("post", "full", "Utf8", <<Jan15b, NoDate>>),
          RawTable("post", "no_start", "Utf8", <<Jan15b>>)}
    ELSE {RawTable("post", "bare", "Utf8", <<>>)}

-----------------------------------------------------------------------------
(* The assembler as a state machine *)

Idle ==
    [pc |-> "idle", n |-> 0, missing_months |-> TRUE, stations |-> NoStations,
     already |-> {}, queue |-> <<>>, parts |-> <<>>, reads |-> {},
     failed |-> {}, finished |-> {}, writes |-> <<>>, changed |-> FALSE, second |-> FALSE,
     resumed |-> FALSE, start |-> <<>>, prevStartKeys |-> {}]

Init ==
    /\ raw = <<>>
    /\ master = <<>>
    /\ stationsObj = NoObject
    /\ run = Idle
    /\ NormIdle
    /\ DimIdle
    /\ KeysIdle
    /\ LaterIdle

\* the supplier adds a raw object between runs
Upload(k, t) ==
    /\ ~Running
    /\ k \notin DOMAIN raw
    /\ raw' = Put(raw, k, t)
    /\ run' = [run EXCEPT !.changed = TRUE]
    /\ UNCHANGED <<master, stationsObj, harnessVars>>

\* lines 96-123: the call, the listing of the raw keys and the existence check
Begin(st, mm) ==
    /\ ~Running
    /\ run.n < MaxRuns
    /\ run' = [pc |-> "files", n |-> run.n + 1, missing_months |-> mm,
               stations |-> st,
               already |-> IF mm THEN _existing_master_partitions(DOMAIN master) ELSE {},
               queue |-> SortedKeys(RawKeys(raw)), parts |-> <<>>, reads |-> {},
               failed |-> {}, finished |-> {}, writes |-> <<>>, changed |-> FALSE,
               second |-> /\ run.pc \in {"done", "raised"}
                          /\ run.missing_months /\ mm /\ ~run.changed,
               resumed |-> run.pc = "killed" /\ mm /\ ~run.changed,
               start |-> master,
               prevStartKeys |-> DOMAIN run.start]
    /\ UNCHANGED <<raw, master, stationsObj, harnessVars>>

\* lines 129-132
SkipIgnored ==
    /\ run.pc = "files" /\ run.queue # <<>>
    /\ _key_kind(Head(run.queue))[1] = "ignore"
    /\ run' = [run EXCEPT !.queue = Tail(@)]
    /\ UNCHANGED <<raw, master, stationsObj, harnessVars>>

\* lines 134-159: a monthly file is read, normalized, and then skipped or written
ProcessMonthly ==
    /\ run.pc = "files" /\ run.queue # <<>>
    /\ _key_kind(Head(run.queue))[1] = "monthly"
    /\ \E key \in {Head(run.queue)} :
       \E df \in {normalize_trip_schema(raw[key], run.stations)} :
       \E kk \in {_key_kind(key)} :
          IF ~IsTable(df)
          THEN /\ run' = [run EXCEPT !.pc = "raised", !.reads = @ \cup {key},
                                     !.failed = @ \cup {key}]
               /\ master' = master
          ELSE IF Skips(run.missing_months, run.already, <<kk[2], kk[3]>>)
          THEN /\ run' = [run EXCEPT !.queue = Tail(@), !.reads = @ \cup {key},
                                     !.finished = @ \cup {key}]
               /\ master' = master
          ELSE /\ run' = [run EXCEPT !.queue = Tail(@), !.reads = @ \cup {key},
                                     !.finished = @ \cup {key},
                                     !.writes = Append(@, Write(PartUri(kk[2], kk[3]), key))]
               /\ master' = Put(master, PartUri(kk[2], kk[3]), df)
    /\ UNCHANGED <<raw, stationsObj, harnessVars>>

\* the step with a failing file passed over instead of ending the run
ReadBulkContinue ==
    /\ run.pc = "files" /\ run.queue # <<>>
    /\ _key_kind(Head(run.queue))[1] = "bulk"
    /\ \E key \in {Head(run.queue)} :
       \E df \in {normalize_trip_schema(raw[key], run.stations)} :
          IF ~IsTable(df) \/ SortRaises(GroupKeys(df))
          THEN run' = [run EXCEPT !.queue = Tail(@), !.reads = @ \cup {key},
                                  !.failed = @ \cup {key}]
          ELSE IF GroupKeys(df) = {}
          THEN run' = [run EXCEPT !.queue = Tail(@), !.reads = @ \cup {key},
                                  !.finished = @ \cup {key}]
          ELSE \E sorted \in {SortedGroups(GroupKeys(df))} :
                  run' = [run EXCEPT !.pc = "bulk", !.reads = @ \cup {key},
                              !.parts = [i \in 1..Len(sorted) |->
                                            <<sorted[i], SubDf(df, sorted[i])>>]]
    /\ UNCHANGED <<raw, master, stationsObj, harnessVars>>

\* lines 134-174: a bulk file is read, normalized, split and its groups sorted
ReadBulk ==
    /\ run.pc = "files" /\ run.queue # <<>>
    /\ _key_kind(Head(run.queue))[1] = "bulk"
    /\ \E key \in {Head(run.queue)} :
       \E df \in {normalize_trip_schema(raw[key], run.stations)} :
          IF ~IsTable(df) \/ SortRaises(GroupKeys(df))
          THEN run' = [run EXCEPT !.pc = "raised", !.reads = @ \cup {key},
                                  !.failed = @ \cup {key}]
          ELSE IF GroupKeys(df) = {}
          THEN run' = [run EXCEPT !.queue = Tail(@), !.reads = @ \cup {key},
                                  !.finished = @ \cup {key}]
          ELSE \E sorted \in {SortedGroups(GroupKeys(df))} :
                  run' = [run EXCEPT !.pc = "bulk", !.reads = @ \cup {key},
                              !.parts = [i \in 1..Len(sorted) |->
                                            <<sorted[i], SubDf(df, sorted[i])>>]]
    /\ UNCHANGED <<raw, master, stationsObj, harnessVars>>

\* lines 174-189: one group of the bulk file is skipped or written
BulkPart ==
    /\ run.pc = "bulk"
    /\ LET key == Head(run.queue)
           g == Head(run.parts)[1]
           subdf == Head(run.parts)[2]
           uri == PartUri(g[1], g[2])
           last == Len(run.parts) = 1
           next == [run EXCEPT !.parts = Tail(@),
                               !.pc = IF last THEN "files" ELSE "bulk",
                               !.queue = IF last THEN Tail(@) ELSE @,
                               !.finished = IF last THEN @ \cup {key} ELSE @]
       IN IF Skips(run.missing_months, run.already, g)
          THEN /\ run' = next
               /\ master' = master
          ELSE /\ run' = [next EXCEPT !.writes = Append(@, Write(uri, key))]
               /\ master' = Put(master, uri, subdf)
    /\ UNCHANGED <<raw, stationsObj, harnessVars>>

\* lines 194-205: the station dimension is rebuilt and written
Rebuild ==
    /\ run.pc = "files" /\ run.queue = <<>>
    /\ \E dim \in build_station_dimension(
                      ScanMaster(master, RebuildSource(master))) :
          IF ~IsTable(dim)
          THEN /\ run' = [run EXCEPT !.pc = "raised"]
               /\ stationsObj' = stationsObj
          ELSE /\ run' = [run EXCEPT !.pc = "done",
                                     !.writes = Append(@, Write(STATIONS_KEY, <<>>))]
               /\ stationsObj' = dim
    /\ UNCHANGED <<raw, master, harnessVars>>

\* the process is killed, or a storage call raises, between two steps
Interrupt ==
    /\ Running
    /\ run' = [run EXCEPT !.pc = "killed"]
    /\ UNCHANGED <<raw, master, stationsObj, harnessVars>>

Next ==
    \/ \E k \in RawKeyUniverse : \E t \in RawContents(k) : Upload(k, t)
    \/ \E st \in StationArgs \cup ({stationsObj} \ {NoObject}), mm \in BOOLEAN : Begin(st, mm)
    \/ SkipIgnored
    \/ ProcessMonthly
    \/ ReadBulk
    \/ BulkPart
    \/ Rebuild
    \/ Interrupt

Spec == Init /\ [][Next]_vars

-----------------------------------------------------------------------------
(* Properties of the assembler (checked under Spec) *)

WriteKeys == {run.writes[i].key : i \in 1..Len(run.writes)}

WritesOf(src) == {run.writes[i].key : i \in {j \in 1..Len(run.writes) : run.writes[j].src = src}}

NonePart == PartUri(NullV, NullV)

\* an object year=<integer>/month=<integer>/part.parquet under MASTER_PREFIX
ProperPartition(k) ==
    /\ GlobMatches(k)
    /\ LET segs == Split(k, <<"/">>)
           n == Len(segs)
       IN /\ IsDigitText(SubSeq(segs[n - 2], Len(YearEq) + 1, Len(segs[n - 2])))
          /\ IsDigitText(SubSeq(segs[n - 1], Len(MonthEq) + 1, Len(segs[n - 1])))

IntGroup(g) == ~IsNull(g[1]) /\ ~IsNull(g[2])

\* the objects a run over the raw store writes when nothing is skipped
TargetKeys ==
    UNION {LET kk == _key_kind(k)
           IN IF kk[1] = "monthly" THEN {PartUri(kk[2], kk[3])}
              ELSE IF kk[1] = "bulk"
              THEN {PartUri(g[1], g[2]) :
                       g \in GroupKeys(normalize_trip_schema(raw[k], run.stations))}
              ELSE {} : k \in RawKeys(raw)}

StationWrites == {i \in 1..Len(run.writes) : run.writes[i].key = STATIONS_KEY}

\* C1 as stated: the second of two runs in sequence with missing_months=True
\* over an unchanged raw store writes nothing to the destination store.
C1_SecondRunWritesNothing == (run.second /\ run.pc \in {"done", "raised"}) => Len(run.writes) = 0

\* C1 amended: the second run writes no year=<int>/month=<int> partition; it
\* writes the station dimension object, once and last, when it completes, and
\* besides that at most the object year=None/month=None.
C1_SecondRunWritesNoPartition ==
    run.second =>
        /\ \A k \in WriteKeys : k \in {STATIONS_KEY, NonePart} /\ ~ProperPartition(k)
        /\ run.pc = "done" => StationWrites = {Len(run.writes)}
        /\ NonePart \in WriteKeys => NonePart \in DOMAIN run.start

C1_Witness ==
    /\ run.second /\ run.pc = "done"
    /\ {K_BULK, K_JAN} \subseteq run.reads
    /\ Cardinality({k \in DOMAIN master : ProperPartition(k)}) = 3
    /\ WriteKeys = {STATIONS_KEY}

C3_SkippedFileNotRead ==
    run.missing_months =>
        \A k \in RawKeys(raw) :
            LET kk == _key_kind(k)
            IN (kk[1] = "monthly" /\ PartUri(kk[2], kk[3]) \in DOMAIN run.start)
                   => k \notin run.reads /\ WritesOf(k) = {}

IdsIn(t) ==
    {c \in {t.rows[i]["start_station_id"] : i \in 1..Len(t.rows)}
           \cup {t.rows[i]["end_station_id"] : i \in 1..Len(t.rows)} : ~IsNull(c)}

\* C5: the station dimension is written only as the last step of a run, after
\* every raw file of the run has been processed, and it has one row for each
\* station of every partition of the master table, whichever run wrote it.
C5_StationsAfterAllFiles ==
    /\ \A i \in StationWrites :
          /\ i = Len(run.writes)
          /\ run.pc = "done" /\ run.queue = <<>> /\ run.parts = <<>>
          /\ ~run.changed =>
                {k \in RawKeys(raw) : _key_kind(k)[1] # "ignore"} \subseteq run.finished
    /\ run.pc = "done" =>
          /\ StationWrites # {}
          /\ IsTable(stationsObj)
          /\ {stationsObj.rows[i].station_id : i \in 1..Len(stationsObj.rows)}
                = UNION {IdsIn(master[k]) : k \in {x \in DOMAIN master : GlobMatches(x)}}
    /\ run.pc \in {"killed", "raised"} => StationWrites = {}

C5_Witness ==
    /\ run.pc = "done"
    /\ \E k \in DOMAIN master :
          /\ k \notin WriteKeys
          /\ I(31002) \in IdsIn(master[k])
          /\ \A o \in DOMAIN master \ {k} : I(31002) \notin IdsIn(master[o])
    /\ \E i \in 1..Len(stationsObj.rows) : stationsObj.rows[i].station_id = I(31002)
    /\ Cardinality(WriteKeys) > 1

-----------------------------------------------------------------------------
(* The station dimension builder applied to one trips table (SpecDim) *)

MaxTrips == 2

TripsDtype == normalize_trip_schema(RawTable("post", "full", "Utf8", <<>>), NoStations).dtype

\* a canonical trip, as a partition of the master table holds it
DimTrip(sid, sname, eid, ename, at) ==
    [c \in SeqToSet(CANONICAL_COLUMNS) |->
        CASE c = "start_station_id" -> sid
          [] c = "start_station_name" -> sname
          [] c = "end_station_id" -> eid
          [] c = "end_station_name" -> ename
          [] c = "started_at" -> at
          [] c = "start_lat" -> IF IsNull(sid) THEN NullV ELSE Lat(sid.v)
          [] c = "start_lng" -> IF IsNull(sid) THEN NullV ELSE Lng(sid.v)
          [] c = "end_lat" -> IF IsNull(eid) THEN NullV ELSE Lat(eid.v)
          [] c = "end_lng" -> IF IsNull(eid) THEN NullV ELSE Lng(eid.v)
          [] OTHER -> NullV]

At(text) == Strptime(S(text))

DimSeeds ==
    { DimTrip(I(31000), S("A"), I(31001), S("B"), At(T0)),
      DimTrip(I(31000), S("A2"), I(31001), S("B"), At(TNextDay)),
      DimTrip(I(31000), S("A"), I(31000), S("A2"), At(T600)),
      DimTrip(NullV, NullV, I(31002), S("C"), At(TSun)),
      DimTrip(I(31000), S("A3"), NullV, NullV, At(TBad)),
      DimTrip(I(31001), S("B"), I(31000), S("A"), At(TSun)),
      DimTrip(I(31001), NullV, I(31001), S("B"), At(T600)),
      DimTrip(I(31002), S("C2"), NullV, NullV, At(T0)) }

DimTables ==
    {[columns |-> CANONICAL_COLUMNS, dtype |-> TripsDtype, rows |-> rows] :
        rows \in UNION {[1..n -> DimSeeds] : n \in 0..MaxTrips}}

InitDim ==
    /\ trips_arg \in DimTables
    /\ stations_new = Pending
    /\ AsmIdle
    /\ NormIdle
    /\ KeysIdle
    /\ LaterIdle

BuildDim ==
    /\ stations_new = Pending
    /\ stations_new' \in build_station_dimension(trips_arg)
    /\ UNCHANGED <<trips_arg, normVars, keyVars, laterVars, asmVars>>

NextDim == BuildDim

SpecDim == InitDim /\ [][NextDim]_vars

-----------------------------------------------------------------------------
(* Properties of the station dimension builder (checked under SpecDim) *)

DimIds == [i \in 1..Len(stations_new.rows) |-> stations_new.rows[i].station_id]

StartIdsIn(t) == {t.rows[i]["start_station_id"] : i \in 1..Len(t.rows)}

\* the observations of station id in the trips: <<name, started_at>>, in
\* either role
ObservedAs(t, id) ==
    {<<t.rows[i]["start_station_name"], t.rows[i]["started_at"]>> :
        i \in {j \in 1..Len(t.rows) : t.rows[j]["start_station_id"] = id}}
    \cup {<<t.rows[i]["end_station_name"], t.rows[i]["started_at"]>> :
        i \in {j \in 1..Len(t.rows) : t.rows[j]["end_station_id"] = id}}

\* C11: the call returns a table with exactly one row for each distinct
\* non-null station id that occurs as start or as end station of a trip, and
\* no row with a null station id.
C11_OneRowPerStation ==
    stations_new # Pending =>
        /\ IsTable(stations_new)
        /\ \A i \in DOMAIN DimIds : ~IsNull(DimIds[i])
        /\ \A i, j \in DOMAIN DimIds : DimIds[i] = DimIds[j] => i = j
        /\ SeqToSet(DimIds) = IdsIn(trips_arg)

C11_Witness ==
    /\ IsTable(stations_new)
    /\ Len(stations_new.rows) = 2
    /\ I(31002) \in SeqToSet(DimIds)
    /\ I(31002) \notin StartIdsIn(trips_arg)
    /\ NullV \in StartIdsIn(trips_arg)
    /\ Len(trips_arg.rows) = 2

\* C12: the row kept for a station id carries a name under which the id was
\* observed at the most recent observation timestamp of that id.
C12_LatestNameKept ==
    IsTable(stations_new) =>
        \A i \in DOMAIN DimIds :
            LET dated == {o \in ObservedAs(trips_arg, DimIds[i]) : ~IsNull(o[2])}
            IN dated # {} =>
                  \E o \in dated :
                      /\ \A p \in dated : EpochSeconds(o[2].v) >= EpochSeconds(p[2].v)
                      /\ stations_new.rows[i].station_name = o[1]

\* C13: no step of the pipeline removes an object of the master table: across
\* runs with either value of missing_months, complete, stopped or failed, the
\* set of materialized partitions only grows.
C13_PartitionsOnlyGrow == [][\A k \in DOMAIN master : k \in DOMAIN master']_vars

C13_Witness ==
    /\ run.n = 2 /\ ~run.missing_months /\ run.pc \in {"killed", "raised", "done"}
    /\ Len(run.writes) > 0
    /\ Cardinality(DOMAIN run.start) = 3
    /\ DOMAIN run.start \subseteq DOMAIN master

\* the year and month of the started_at of a trip, as the text of an integer,
\* or none
StartedIn(row) ==
    IF IsNull(row["started_at"]) THEN <<>>
    ELSE <<NatToText(row["started_at"].v.y), NatToText(row["started_at"].v.mo)>>

\* C14: every trip stored in the partition year=Y/month=M has a started_at
\* whose year is Y and whose month is M.
C14_TripsInTheirMonth ==
    \A k \in DOMAIN master :
        ProperPartition(k) =>
            \A i \in 1..Len(master[k].rows) :
                LET ym == StartedIn(master[k].rows[i])
                IN /\ ym # <<>>
                   /\ k = MASTER_PREFIX \o <<"/">> \o YearEq \o ym[1] \o <<"/">>
                            \o MonthEq \o ym[2] \o <<"/">> \o PartFile

\* C15: once a raw file has raised, the run has ended there: no raw file that
\* sorts after it has been read, nothing was written for it or after it (no
\* partition, no station dimension), and what the run wrote before is in the
\* store; the same holds of a run stopped between two steps.
C15_FailFast ==
    /\ run.pc = "killed" =>
          \A i \in 1..Len(run.writes) :
              run.writes[i].key # STATIONS_KEY /\ run.writes[i].key \in DOMAIN master
    /\ \A k \in run.failed :
            /\ run.pc = "raised"
            /\ \A o \in run.reads : o = k \/ TextLess(o, k)
            /\ \A i \in 1..Len(run.writes) :
                  /\ run.writes[i].key # STATIONS_KEY
                  /\ TextLess(run.writes[i].src, k)
                  /\ run.writes[i].key \in DOMAIN master
            /\ run.n = 1 => stationsObj = NoObject

C15_Witness ==
    /\ run.pc = "raised"
    /\ run.failed = {K_JAN}
    /\ WritesOf(K_BULK) = {PartUri(I(2015), I(1)), PartUri(I(2015), I(2)), PartUri(I(2015), I(3))}
    /\ WritesOf(K_BULK) \subseteq DOMAIN master

\* the partition of a monthly raw key
MonthlyUri(k) == PartUri(_key_kind(k)[2], _key_kind(k)[3])

\* C16: a monthly file that has been processed in a run with
\* missing_months=False, or whose partition was absent when the run began, was
\* written by that run, and the partition then holds exactly the normalized
\* rows of the file, whatever it held before.
C16_MonthlyOverwrite ==
    \A k \in run.finished :
        (_key_kind(k)[1] = "monthly"
            /\ (~run.missing_months \/ MonthlyUri(k) \notin DOMAIN run.start))
        => /\ WritesOf(k) = {MonthlyUri(k)}
           /\ (\A i \in 1..Len(run.writes) :
                  run.writes[i].key = MonthlyUri(k) =>
                      \E j \in i..Len(run.writes) : run.writes[j] = Write(MonthlyUri(k), k))
              => master[MonthlyUri(k)] = normalize_trip_schema(raw[k], run.stations)

C16_Witness ==
    /\ ~run.missing_months
    /\ K_JAN \in run.finished
    /\ MonthlyUri(K_JAN) \in DOMAIN run.start
    /\ run.start[MonthlyUri(K_JAN)] # master[MonthlyUri(K_JAN)]
    /\ Len(master[MonthlyUri(K_JAN)].rows) = 1
    /\ master[MonthlyUri(K_JAN)].rows[1]["start_station_id"] = I(31002)

-----------------------------------------------------------------------------
(* The key functions of ingest.py applied to one listing (SpecKeys) *)

MaxKeys == 2

RawKeyNames ==
    { K_BULK, K_JAN, K_NOTES,
      <<"2", "0", "1", "5", "0", "1", ".", "p", "a", "r", "q", "u", "e", "t">>,
      <<"2", "0", "1", "5", ".", "c", "s", "v">>,
      <<"r", "a", "w", "/", "2", "0", "1", "5", "0", "2", ".", "c", "s", "v">>,
      <<"2", "0", "1", "5", "0", ".", "c", "s", "v">>,
      <<"2", "0", "1", "5", "0", "1", "1", ".", "c", "s", "v">>,
      <<"2", "0", "1", "5", "Q", "1", ".", "p", "a", "r", "q", "u", "e", "t">>,
      <<"2", "0", "1", "5", "1", "3", ".", "c", "s", "v">>,
      <<"i", "n", "d", "e", "x", ".", "h", "t", "m", "l">> }

MasterKeyNames ==
    { PartUri(I(2015), I(1)), PartUri(I(2015), I(12)), PartUri(NullV, NullV),
      <<"m", "a", "s", "t", "e", "r", "/", "t", "r", "i", "p", "s", "/", "y", "e", "a", "r", "=", "2", "0", "1", "5", "/", "p", "a", "r", "t", ".", "p", "a", "r", "q", "u", "e", "t">>,
      <<"m", "a", "s", "t", "e", "r", "/", "t", "r", "i", "p", "s", "/", "y", "e", "a", "r", "=", "2", "0", "1", "5", "/", "m", "o", "n", "t", "h", "=", "/", "p", "a", "r", "t", ".", "p", "a", "r", "q", "u", "e", "t">>,
      <<"m", "a", "s", "t", "e", "r", "/", "t", "r", "i", "p", "s", "/", "y", "e", "a", "r", "=", "2", "0", "1", "5", "/", "m", "o", "n", "t", "h", "=", "2", "/", "_", "S", "U", "C", "C", "E", "S", "S">>,
      <<"m", "a", "s", "t", "e", "r", "/", "t", "r", "i", "p", "s", "/", "y", "e", "a", "r", "=", "2", "0", "x", "5", "/", "m", "o", "n", "t", "h", "=", "3", "/", "p", "a", "r", "t", ".", "p", "a", "r", "q", "u", "e", "t">>,
      <<"m", "a", "s", "t", "e", "r", "/", "t", "r", "i", "p", "s", "/", "y", "e", "a", "r", "=", "2", "0", "1", "6", "/", "m", "o", "n", "t", "h", "=", "0", "2", "/", "p", "a", "r", "t", ".", "p", "a", "r", "q", "u", "e", "t">> }

UpTo(universe, n) == {x \in SUBSET universe : Cardinality(x) <= n}

InitKeys ==
    /\ key_listing \in [raw : UpTo(RawKeyNames, MaxKeys), master : UpTo(MasterKeyNames, MaxKeys)]
    /\ key_scan = Pending
    /\ AsmIdle
    /\ NormIdle
    /\ DimIdle
    /\ LaterIdle

\* lines 96-100, 123 and 128: the raw keys with a data extension, sorted, and
\* the partitions found under MASTER_PREFIX/
ListKeys ==
    /\ key_scan = Pending
    /\ \E queue \in {SortedKeys(RawKeys([k \in key_listing.raw |-> NoObject]))} :
          key_scan' = [pc |-> IF queue = <<>> THEN "end" ELSE "loop",
                       queue |-> queue,
                       already |-> _existing_master_partitions(key_listing.master),
                       reads |-> <<>>, ignored |-> {}]
    /\ UNCHANGED <<key_listing, normVars, dimVars, laterVars, asmVars>>

\* lines 129-137: the next key is classified; an ignored key is passed over,
\* any other key goes on to be read
ClassifyKey ==
    /\ key_scan # Pending
    /\ key_scan.pc = "loop"
    /\ \E key \in {Head(key_scan.queue)} :
       \E kk \in {_key_kind(key)} :
          key_scan' = [key_scan EXCEPT
                          !.queue = Tail(@),
                          !.pc = IF Len(key_scan.queue) = 1 THEN "end" ELSE "loop",
                          !.ignored = IF kk[1] = "ignore" THEN @ \cup {key} ELSE @,
                          !.reads = IF kk[1] = "ignore" THEN @ ELSE Append(@, <<key, kk>>)]
    /\ UNCHANGED <<key_listing, normVars, dimVars, laterVars, asmVars>>

NextKeys == ListKeys \/ ClassifyKey

SpecKeys == InitKeys /\ [][NextKeys]_vars

-----------------------------------------------------------------------------
(* Properties of the key functions (checked under SpecKeys) *)

\* the basename of a key without its data extension
Stem(k) ==
    LET segs == Split(k, <<"/">>)
        name == segs[Len(segs)]
    IN IF EndsWith(name, DotCsv) THEN SubSeq(name, 1, Len(name) - Len(DotCsv))
       ELSE IF EndsWith(name, DotParquet) THEN SubSeq(name, 1, Len(name) - Len(DotParquet))
       ELSE name

HasDataExtension(k) == EndsWith(k, DotCsv) \/ EndsWith(k, DotParquet)

ExpectedKind(k) ==
    IF IsDigitText(Stem(k)) /\ Len(Stem(k)) = 6
    THEN <<"monthly", I(TextToNat(SubSeq(Stem(k), 1, 4))), I(TextToNat(SubSeq(Stem(k), 5, 6)))>>
    ELSE IF IsDigitText(Stem(k)) /\ Len(Stem(k)) = 4
    THEN <<"bulk", I(TextToNat(Stem(k))), NullV>>
    ELSE <<"ignore", NullV, NullV>>

ScanEnded == key_scan # Pending /\ key_scan.pc = "end"

ReadKeys == {key_scan.reads[i][1] : i \in 1..Len(key_scan.reads)}

MonthlyReads == {i \in 1..Len(key_scan.reads) : key_scan.reads[i][2][1] = "monthly"}

\* C17: a raw key is classified by its stem: six digits monthly(first four,
\* last two), four digits bulk(year), anything else ignore; an ignored key is
\* not read, and the loop goes on to the keys after it.
C17_KeyClassification ==
    /\ key_scan # Pending =>
          Len(key_scan.queue) + Len(key_scan.reads) + Cardinality(key_scan.ignored)
              = Cardinality({k \in key_listing.raw : HasDataExtension(k)})
    /\ ScanEnded =>
          \A k \in key_listing.raw :
              IF HasDataExtension(k) /\ ExpectedKind(k)[1] # "ignore"
              THEN /\ \E i \in 1..Len(key_scan.reads) : key_scan.reads[i] = <<k, ExpectedKind(k)>>
                   /\ k \notin key_scan.ignored
              ELSE k \notin ReadKeys

C17_Witness ==
    /\ ScanEnded
    /\ Cardinality(key_scan.ignored) = 1
    /\ key_scan.reads = <<<<K_JAN, <<"monthly", I(2015), I(1)>>>>>>
    /\ \A k \in key_scan.ignored : TextLess(k, K_JAN)

SegmentValue(k, prefix) ==
    LET segs == Split(k, <<"/">>)
        vals == {SubSeq(segs[i], Len(prefix) + 1, Len(segs[i])) :
                    i \in {j \in 1..Len(segs) : StartsWith(segs[j], prefix)}}
    IN IF Cardinality(vals) = 1 /\ \A v \in vals : IsDigitText(v)
       THEN {TextToNat(v) : v \in vals} ELSE {}

\* C19: the existence check does not raise, and returns exactly the integer
\* (year, month) pairs of the .parquet keys whose year= and month= segments
\* are integers; every other key is passed over.
C19_ExistenceCheckTolerant ==
    key_scan # Pending =>
        /\ key_scan.already # RaisedSet
        /\ key_scan.already =
              UNION {{<<I(y), I(m)>> : y \in SegmentValue(k, YearEq), m \in SegmentValue(k, MonthEq)} :
                        k \in {x \in key_listing.master : EndsWith(x, DotParquet)}}

C19_Witness ==
    /\ key_scan # Pending
    /\ key_scan.already = {<<I(2016), I(2)>>}
    /\ Cardinality(key_listing.master) = 2
    /\ PartUri(NullV, NullV) \in key_listing.master

-----------------------------------------------------------------------------
(* Properties of the coordinate step (checked under SpecNorm) *)

\* the raw row i carries the coordinate c
Carries(i, c) == HasCol(df_raw, c) /\ ~IsNull(df_raw.rows[i][c])

\* the rows of the station table handed in for station id
StationHits(id) ==
    {j \in 1..Len(stations_arg.rows) : stations_arg.rows[j].station_id = id}

\* C20: no trip row is dropped; a row that does not carry coordinates keeps
\* null coordinates when its station id is null or absent from the station
\* table, and receives the station's lat/lng when the id is in the table; a
\* row that carries coordinates keeps them.
C20_CoordinatesJoined ==
    IsTable(df_out) =>
        /\ RowsAligned
        /\ \A i \in 1..Len(df_raw.rows) :
             \A role \in {<<"start_station_id", "start_lat", "start_lng">>,
                          <<"end_station_id", "end_lat", "end_lng">>} :
                LET id == df_out.rows[i][role[1]]
                    lat == df_out.rows[i][role[2]]
                    lng == df_out.rows[i][role[3]]
                IN IF Carries(i, role[2]) \/ Carries(i, role[3])
                   THEN lat = df_raw.rows[i][role[2]] /\ lng = df_raw.rows[i][role[3]]
                   ELSE IF IsNull(id) \/ StationHits(id) = {}
                   THEN IsNull(lat) /\ IsNull(lng)
                   ELSE \A j \in StationHits(id) :
                           /\ lat = stations_arg.rows[j].lat
                           /\ lng = stations_arg.rows[j].lng

-----------------------------------------------------------------------------
(* Properties of the fill step (checked under SpecNorm) *)

Renamed == RenameStep(df_raw)

\* the canonical columns that the steps before the fill loop compute from
\* the columns the renamed table has
Derived(c) ==
    \/ c \in {"day", "hour", "weekday"} /\ HasCol(Renamed, "started_at")
    \/ c = "duration_sec" /\ HasCol(Renamed, "started_at") /\ HasCol(Renamed, "ended_at")
    \/ c \in {"start_lat", "start_lng"} /\ HasCol(Renamed, "start_station_id")
    \/ c \in {"end_lat", "end_lng"} /\ HasCol(Renamed, "end_station_id")

\* the canonical columns neither supplied by the raw table nor derived
MissingColumns ==
    {c \in SeqToSet(CANONICAL_COLUMNS) : ~HasCol(Renamed, c) /\ ~Derived(c)}

\* C21: whatever canonical columns the raw table lacks, the call does not
\* fail, and each canonical column that is neither supplied nor derived is
\* output with a concrete type and null in every row.
C21_MissingColumnsFilled ==
    Called =>
        /\ IsTable(df_out)
        /\ \A c \in MissingColumns :
              /\ df_out.dtype[c] \in {"Utf8", "Float64", "Datetime", "Int64", "Int8"}
              /\ \A i \in 1..Len(df_out.rows) : IsNull(df_out.rows[i][c])

-----------------------------------------------------------------------------
(* Properties of the assembler over files with unparsable dates (Spec) *)

\* the raw table has a started_at or ended_at value that strptime cannot parse
HasUnparsableDate(t) ==
    \E i \in 1..Len(t.rows) :
        \E c \in {RawName(t, "started_at"), RawName(t, "ended_at")} :
            HasCol(t, c) /\ ~IsNull(t.rows[i][c]) /\ IsNull(Strptime(t.rows[i][c]))

\* the rows of the objects that the writes of src put in the store and that
\* no later write replaced
RowsStoredBy(src) ==
    {<<u, r>> \in UNION {{<<w, master[w].rows[i]>> : i \in 1..Len(master[w].rows)} :
                           w \in WritesOf(src)} :
        \A i \in 1..Len(run.writes) :
            run.writes[i].key = u => \E j \in i..Len(run.writes) : run.writes[j] = Write(u, src)}

\* C22: a raw file that has every required column and some unparsable
\* started_at/ended_at values does not make the run raise; once processed in
\* a run that skips nothing, the partitions it wrote hold its rows, the
\* unparsable values as nulls.
C22_UnparsableDatesTolerated ==
    /\ \A k \in run.failed :
          ~(RequiredPresent(raw[k]) /\ HasUnparsableDate(raw[k]))
    /\ \A k \in run.finished :
          (~run.missing_months /\ RequiredPresent(raw[k]) /\ HasUnparsableDate(raw[k])
             /\ _key_kind(k)[1] \in {"monthly", "bulk"})
          => /\ WritesOf(k) # {}
             /\ \E x \in RowsStoredBy(k) :
                   IsNull(x[2]["started_at"]) \/ IsNull(x[2]["ended_at"])

-----------------------------------------------------------------------------
(* Properties of the observation window (checked under SpecDim) *)

\* the non-null started_at of the observations of station id, in either role
\* and under any name
SeenAt(id) == {o[2] : o \in {p \in ObservedAs(trips_arg, id) : ~IsNull(p[2])}}

\* cell c is the least (sense = 1) or the greatest (sense = -1) of the cells
IsExtreme(c, cells, sense) ==
    IF cells = {} THEN IsNull(c)
    ELSE /\ c \in cells
         /\ \A o \in cells : sense * EpochSeconds(c.v) <= sense * EpochSeconds(o.v)

\* C23: in each row of the dimension, earliest_seen is the minimum and
\* latest_seen the maximum started_at over all observations of the row's
\* station id, in either role and under whatever name.
C23_ObservationWindow ==
    IsTable(stations_new) =>
        \A i \in DOMAIN DimIds :
            /\ IsExtreme(stations_new.rows[i].earliest_seen, SeenAt(DimIds[i]), 1)
            /\ IsExtreme(stations_new.rows[i].latest_seen, SeenAt(DimIds[i]), -1)

-----------------------------------------------------------------------------
(* Properties of the partitions a bulk file writes (checked under Spec) *)

\* the text after year= in the key of a partition object
YearSegment(uri) ==
    LET segs == Split(uri, <<"/">>)
        seg == segs[Len(segs) - 2]
    IN SubSeq(seg, Len(YearEq) + 1, Len(seg))

BulkWrites == {i \in 1..Len(run.writes) : _key_kind(run.writes[i].src)[1] = "bulk"}

\* C25 as stated: every partition written while a bulk file named YYYY is
\* processed has year = YYYY.
C25_BulkWritesOwnYear ==
    \A i \in BulkWrites :
        YearSegment(run.writes[i].key) = PyStr(_key_kind(run.writes[i].src)[2])

\* C25 amended: every partition written while a bulk file is processed has
\* the year and the month in which the trips it holds started (None for
\* trips without a started_at), whatever year the file is named after.
C25_BulkWritesByStartedAt ==
    \A i \in BulkWrites :
        (\A j \in (i + 1)..Len(run.writes) : run.writes[j].key # run.writes[i].key)
        => LET part == master[run.writes[i].key]
           IN /\ part.rows # <<>>
              /\ \A n \in 1..Len(part.rows) :
                    PartUri(YearMonth(part.rows[n])[1], YearMonth(part.rows[n])[2])
                       = run.writes[i].key

C25_Witness ==
    /\ K_BULK \in run.finished
    /\ WritesOf(K_BULK) = {PartUri(I(2014), I(12))}
    /\ master[PartUri(I(2014), I(12))].rows[1]["started_at"].v.y = 2014

-----------------------------------------------------------------------------
(* Properties of a bulk and a monthly file of the same month (Spec) *)

\* the partitions the groups of a bulk file are written to
BulkTargets(k) ==
    {PartUri(g[1], g[2]) : g \in GroupKeys(normalize_trip_schema(raw[k], run.stations))}

\* C26: in a run with missing_months=True, when a bulk file and a monthly
\* file have both been processed and both yield a partition that was absent
\* when the run began, both wrote it in that run, the bulk file first, and
\* the partition holds the rows of the monthly file.
C26_LastProcessedWins ==
    run.missing_months =>
        \A b, m \in run.finished :
            (/\ _key_kind(b)[1] = "bulk"
             /\ _key_kind(m)[1] = "monthly"
             /\ MonthlyUri(m) \notin DOMAIN run.start
             /\ MonthlyUri(m) \in BulkTargets(b))
            => /\ \E i, j \in 1..Len(run.writes) :
                     /\ i < j
                     /\ run.writes[i] = Write(MonthlyUri(m), b)
                     /\ run.writes[j] = Write(MonthlyUri(m), m)
               /\ master[MonthlyUri(m)] = normalize_trip_schema(raw[m], run.stations)

C26_Witness ==
    /\ run.missing_months
    /\ {K_BULK, K_JAN} \subseteq run.finished
    /\ DOMAIN run.start = {}
    /\ PartUri(I(2015), I(1)) \in WritesOf(K_BULK) \cap WritesOf(K_JAN)
    /\ Len(master[PartUri(I(2015), I(1))].rows) = 1
    /\ master[PartUri(I(2015), I(1))].rows[1]["start_station_id"] = I(31002)

-----------------------------------------------------------------------------
(* Properties of the partitions a run finds in the store (Spec) *)

-----------------------------------------------------------------------------
(* raw_ingest.py and pull_functions.py: the pull of the missing months *)

MaxPulls == 2
MaxMonths == 3

\* last_date.strftime("%Y%m")
MonthKey(t) == ZeroPad(NatToText(t.y), 4) \o ZeroPad(NatToText(t.mo), 2)

\* datetime.strptime(s, "%Y%m"); Raised for its ValueError
StrptimeYm(s) ==
    IF ~IsDigitText(s) \/ Len(s) \notin {5, 6} THEN Raised
    ELSE LET mo == TextToNat(SubSeq(s, 5, Len(s)))
         IN IF mo \in 1..12
            THEN [y |-> TextToNat(SubSeq(s, 1, 4)), mo |-> mo, d |-> 1]
            ELSE Raised

\* date + timedelta(days=n)
RECURSIVE AddDays(_, _)
AddDays(t, n) ==
    IF t.d + n <= DaysInMonth(t.y, t.mo) THEN [t EXCEPT !.d = @ + n]
    ELSE AddDays([y |-> IF t.mo = 12 THEN t.y + 1 ELSE t.y,
                  mo |-> IF t.mo = 12 THEN 1 ELSE t.mo + 1, d |-> 1],
                 n - (DaysInMonth(t.y, t.mo) - t.d + 1))

\* str.strip(chars)
RECURSIVE StripChars(_, _)
StripChars(s, chars) ==
    IF s # <<>> /\ Head(s) \in chars THEN StripChars(Tail(s), chars)
    ELSE IF s # <<>> /\ s[Len(s)] \in chars
    THEN StripChars(SubSeq(s, 1, Len(s) - 1), chars)
    ELSE s

\* the first key of the sorted list
FirstKey(keys) == SortedKeys(keys)[1]

\* sorted(keys)[-1]
LastKey(keys) == SortedKeys(keys)[Cardinality(keys)]

\* the date the loop starts from: raw_ingest.py lines 64-70, and line 67 of
\* pull_functions.py over the keys its callers list and sort; Raised for
\* RuntimeError, IndexError and ValueError
LastDate(version, keys) ==
    IF version = "raw_ingest"
    THEN LET parquet_keys == {k \in keys : EndsWith(k, DotParquet)}
         IN IF parquet_keys = {} THEN Raised
            ELSE StrptimeYm(Remove(LastKey(parquet_keys), DotParquet))
    ELSE IF keys = {} THEN Raised
    ELSE StrptimeYm(StripChars(LastKey(keys), SeqToSet(DotParquet)))

\* the loop condition
Behind(t, now) == t.y < now.y \/ (t.y = now.y /\ t.mo < now.mo)

\* what the supplier answers to a download: the status, and the column
\* layout of the CSV in the zip
Responses ==
    {[status |-> 200, layout |-> "post"], [status |-> 200, layout |-> "pre"],
     [status |-> 404, layout |-> "none"]}

\* pull_and_write_from_cabi: raw_ingest.py indexes df["start_station_id"]
\* whatever the layout, pull_functions.py handles both layouts
pull_and_write_from_cabi(version, resp) ==
    IF resp.status # 200 THEN "returned"
    ELSE IF version = "raw_ingest" /\ resp.layout = "pre" THEN "raised"
    ELSE "written"

Versions == {"raw_ingest", "pull_functions"}

ClockStart == [y |-> 2023, mo |-> 12]

MonthIndex(t) == t.y * 12 + t.mo - 1

BucketKeys ==
    {NatToText(2017) \o DotParquet, NatToText(202311) \o DotParquet,
     NatToText(202401) \o DotParquet, NatToText(202402) \o DotCsv}

NotFound(attempts) ==
    {attempts[i].key : i \in {j \in 1..Len(attempts) : attempts[j].status # 200}}

InitPull ==
    /\ raw_bucket \in SUBSET BucketKeys
    /\ today = ClockStart
    /\ pull = [pc |-> "idle", version |-> "none", n |-> 0, last_date |-> Raised,
               now |-> today, attempts |-> <<>>, start |-> {}, missed |-> {}]
    /\ AggIdle
    /\ AsmIdle
    /\ NormIdle
    /\ DimIdle
    /\ KeysIdle

\* a month passes
Tick ==
    /\ MonthIndex(today) < MonthIndex(ClockStart) + MaxMonths
    /\ today' = [y |-> IF today.mo = 12 THEN today.y + 1 ELSE today.y,
                 mo |-> IF today.mo = 12 THEN 1 ELSE today.mo + 1]
    /\ UNCHANGED <<raw_bucket, pull, aggVars, normVars, dimVars, keyVars, asmVars>>

\* the call, up to the loop
BeginPull(version) ==
    /\ pull.pc # "loop"
    /\ pull.n < MaxPulls
    /\ \E ld \in {LastDate(version, raw_bucket)} :
          pull' = [pc |-> IF ld = Raised THEN "raised" ELSE "loop",
                   version |-> version, n |-> pull.n + 1, last_date |-> ld,
                   now |-> today, attempts |-> <<>>, start |-> raw_bucket,
                   missed |-> pull.missed \cup NotFound(pull.attempts)]
    /\ UNCHANGED <<raw_bucket, today, aggVars, normVars, dimVars, keyVars, asmVars>>

\* one pass of the loop: the date moves one month on and the month is pulled
PullMonth ==
    /\ pull.pc = "loop"
    /\ Behind(pull.last_date, pull.now)
    /\ \E next \in {AddDays(pull.last_date,
                            DaysInMonth(pull.last_date.y, pull.last_date.mo))} :
       \E resp \in Responses :
       \E outcome \in {pull_and_write_from_cabi(pull.version, resp)} :
          /\ pull' = [pull EXCEPT
                        !.last_date = next,
                        !.attempts = Append(@, [key |-> MonthKey(next),
                                                status |-> resp.status]),
                        !.pc = IF outcome = "raised" THEN "raised" ELSE "loop"]
          /\ raw_bucket' = IF outcome = "written"
                           THEN raw_bucket \cup {MonthKey(next) \o DotParquet}
                           ELSE raw_bucket
    /\ UNCHANGED <<today, aggVars, normVars, dimVars, keyVars, asmVars>>

\* the loop condition fails and the call returns
PullReturn ==
    /\ pull.pc = "loop"
    /\ ~Behind(pull.last_date, pull.now)
    /\ pull' = [pull EXCEPT !.pc = "done"]
    /\ UNCHANGED <<raw_bucket, today, aggVars, normVars, dimVars, keyVars, asmVars>>

NextPull ==
    \/ Tick
    \/ \E version \in Versions : BeginPull(version)
    \/ PullMonth
    \/ PullReturn

SpecPull == InitPull /\ [][NextPull]_vars

-----------------------------------------------------------------------------
(* Properties of the pull (checked under SpecPull) *)

\* the months of the keys YYYYMM.parquet among the keys, as month indices
StoredMonths(keys) ==
    {TextToNat(SubSeq(k, 1, 4)) * 12 + TextToNat(SubSeq(k, 5, 6)) - 1 :
        k \in {x \in keys : /\ Len(x) = 6 + Len(DotParquet)
                            /\ EndsWith(x, DotParquet)
                            /\ IsDigitText(SubSeq(x, 1, 6))}}

Latest(months) == CHOOSE n \in months : \A o \in months : o <= n

KeyOfIndex(n) == NatToText(n \div 12) \o ZeroPad(NatToText((n % 12) + 1), 2)

AttemptKeys == [i \in 1..Len(pull.attempts) |-> pull.attempts[i].key]

\* the months strictly after the latest stored month, up to the current one
ExpectedAttempts ==
    LET from == Latest(StoredMonths(pull.start))
    IN [i \in 1..(MonthIndex(pull.now) - from) |-> KeyOfIndex(from + i)]

\* C28: an invocation over a bucket with a YYYYMM key ends by returning, and
\* has then attempted exactly the months strictly after the latest stored
\* month up to and including the current month, once each and in ascending
\* order (none when the latest stored month is the current one); while it
\* runs it has attempted the first of them.
C28_AttemptsMissingMonths ==
    (pull.n > 0 /\ StoredMonths(pull.start) # {}) =>
        /\ pull.pc # "raised"
        /\ Len(AttemptKeys) <= Len(ExpectedAttempts)
        /\ AttemptKeys = SubSeq(ExpectedAttempts, 1, Len(AttemptKeys))
        /\ pull.pc = "done" => AttemptKeys = ExpectedAttempts

\* the attempts of the invocation that were answered with another status
\* than 200
Unanswered == {i \in 1..Len(pull.attempts) : pull.attempts[i].status # 200}

\* C29: a download answered with a status other than 200 writes nothing and
\* does not end the invocation, which goes on to the later months; and a
\* month that an earlier invocation failed to download is not attempted by an
\* invocation that found a later month stored when it began.
C29_FailedMonthSkipped ==
    /\ \A i \in Unanswered :
          /\ pull.attempts[i].key \o DotParquet \notin raw_bucket \ pull.start
          /\ i = Len(pull.attempts) => pull.pc \in {"loop", "done"}
          /\ pull.pc = "done" =>
                \A n \in StoredMonths({pull.attempts[i].key \o DotParquet}) :
                    \A later \in (n + 1)..MonthIndex(pull.now) :
                        \E j \in (i + 1)..Len(pull.attempts) :
                            pull.attempts[j].key = KeyOfIndex(later)
    /\ \A i \in 1..Len(pull.attempts) :
          pull.attempts[i].key \in pull.missed =>
              \A n \in StoredMonths(pull.start) :
                  n < Latest(StoredMonths({pull.attempts[i].key \o DotParquet}))

C29_Witness ==
    /\ pull.n = 2 /\ pull.pc = "done"
    /\ pull.missed = {NatToText(202312)}
    /\ NatToText(202401) \o DotParquet \in pull.start
    /\ NatToText(202312) \o DotParquet \notin raw_bucket
    /\ AttemptKeys = <<NatToText(202402), NatToText(202403)>>
    /\ Unanswered = {1}

-----------------------------------------------------------------------------
(* summarize.py: the day_of_week level of build_time_aggregated *)

\* line 466
dow_map ==
    (0 :> "Monday") @@ (1 :> "Tuesday") @@ (2 :> "Wednesday") @@ (3 :> "Thursday")
    @@ (4 :> "Friday") @@ (5 :> "Saturday") @@ (6 :> "Sunday")

\* lines 431-441: null member_type and rideable_type become "unknown", and
\* the trips with duration_sec > 0 are kept
trips_filtered(trips) ==
    LET fill(c) == IF IsNull(c) THEN S("unknown") ELSE c
        kept == SelectSeq(trips.rows, LAMBDA r : /\ ~IsNull(r["duration_sec"])
                                                 /\ r["duration_sec"].v > 0)
    IN [i \in 1..Len(kept) |->
           [kept[i] EXCEPT !["member_type"] = fill(@), !["rideable_type"] = fill(@)]]

\* pl.col("started_at").dt.weekday()
WeekdayOf(row) == DtPart(row["started_at"], DtWeekday)

\* pl.col("weekday").replace(dow_map) as polars before 1.0 computes it: a
\* value that is no key of the mapping is kept, as text
ReplaceWeekday(c) ==
    IF IsNull(c) THEN NullV
    ELSE IF c.v \in DOMAIN dow_map THEN S(dow_map[c.v])
    ELSE S(Digits[c.v + 1])

DowColumns ==
    <<"agg_level", "agg_value", "agg_sort_key", "member_type", "rideable_type",
      "total_checkouts", "total_returns", "net_flow", "total_trips",
      "avg_duration_sec">>

DowDtype ==
    [agg_level |-> "Utf8", agg_value |-> "Utf8", agg_sort_key |-> "Int32",
     member_type |-> "Utf8", rideable_type |-> "Utf8", total_checkouts |-> "UInt32",
     total_returns |-> "UInt32", net_flow |-> "Int32", total_trips |-> "UInt32",
     avg_duration_sec |-> "Float64"]

\* lines 469-483: one row per (weekday, member_type, rideable_type)
DowRows(kept) ==
    LET keys == {<<WeekdayOf(kept[i]), kept[i]["member_type"], kept[i]["rideable_type"]>> :
                    i \in 1..Len(kept)}
        of(k) == SelectSeq(kept, LAMBDA r : /\ WeekdayOf(r) = k[1]
                                            /\ r["member_type"] = k[2]
                                            /\ r["rideable_type"] = k[3])
    IN {[agg_level |-> S("day_of_week"), agg_value |-> ReplaceWeekday(k[1]),
         agg_sort_key |-> k[1], member_type |-> k[2], rideable_type |-> k[3],
         total_checkouts |-> I(Len(of(k))), total_returns |-> I(Len(of(k))),
         net_flow |-> I(0), total_trips |-> I(Len(of(k))),
         avg_duration_sec |-> Mean([i \in 1..Len(of(k)) |->
                                       F(of(k)[i]["duration_sec"].v, 1)])] : k \in keys}

\* the polars releases the code runs under: before 1.0 replace() may change
\* the dtype; from 1.0 on it keeps Int8 and raises for the text values
PolarsReleases == {"0.20", "1.x"}

\* lines 464-484: the tables dow_agg.collect() can yield (group_by leaves the
\* order of the rows undefined), or {Raised}
build_dow_agg(trips, polars) ==
    IF polars = "1.x" THEN {Raised}
    ELSE LET rows == DowRows(trips_filtered(trips))
         IN {[columns |-> DowColumns, dtype |-> DowDtype, rows |-> q] :
                q \in {x \in [1..Cardinality(rows) -> rows] :
                          \A i, j \in DOMAIN x : x[i] = x[j] => i = j}}

\* a canonical trip of the master table
AggTrip(at, dur, member, rideable) ==
    [c \in SeqToSet(CANONICAL_COLUMNS) |->
        CASE c = "started_at" -> at
          [] c = "duration_sec" -> dur
          [] c = "member_type" -> member
          [] c = "rideable_type" -> rideable
          [] OTHER -> NullV]

AggSeeds ==
    {AggTrip(At(DateText(2024, 1, d, 8, 0, 0)), I(600), S("member"), S("classic_bike")) :
        d \in 1..7}
    \cup {AggTrip(At(DateText(2024, 1, 1, 9, 0, 0)), I(0), S("member"), S("classic_bike")),
          AggTrip(At(DateText(2024, 1, 7, 9, 0, 0)), I(300), NullV, NullV),
          AggTrip(NullV, I(600), S("casual"), S("classic_bike"))}

InitAgg ==
    /\ agg_trips \in {[columns |-> CANONICAL_COLUMNS, dtype |-> TripsDtype, rows |-> rows] :
                         rows \in UNION {[1..n -> AggSeeds] : n \in 0..MaxTrips}}
    /\ dow_agg = Pending
    /\ PullIdle
    /\ AsmIdle
    /\ NormIdle
    /\ DimIdle
    /\ KeysIdle

BuildAgg ==
    /\ dow_agg = Pending
    /\ \E polars \in PolarsReleases : dow_agg' \in build_dow_agg(agg_trips, polars)
    /\ UNCHANGED <<agg_trips, pullVars, normVars, dimVars, keyVars, asmVars>>

NextAgg == BuildAgg

SpecAgg == InitAgg /\ [][NextAgg]_vars

-----------------------------------------------------------------------------
(* Properties of the day_of_week level (checked under SpecAgg) *)

\* the names of the ISO weekdays 1..7
DayNames ==
    <<"Monday", "Tuesday", "Wednesday", "Thursday", "Friday", "Saturday", "Sunday">>

\* the aggregated trips that started on the weekday named w: 2024-01-01 was
\* a Monday
StartedOnDay(w) ==
    {i \in 1..Len(agg_trips.rows) :
        LET r == agg_trips.rows[i]
        IN /\ ~IsNull(r["duration_sec"]) /\ r["duration_sec"].v > 0
           /\ ~IsNull(r["started_at"])
           /\ r["started_at"].v.y = 2024 /\ r["started_at"].v.mo = 1
           /\ DayNames[r["started_at"].v.d] = w}

RECURSIVE TotalTrips(_)
TotalTrips(rows) ==
    IF rows = <<>> THEN 0 ELSE Head(rows).total_trips.v + TotalTrips(Tail(rows))

\* C30: in the day_of_week level, the trips counted under the name of a
\* weekday are the aggregated trips that started on that weekday, for each
\* of the seven weekdays.
C30_WeekdayNames ==
    dow_agg # Pending =>
        /\ IsTable(dow_agg)
        /\ \A n \in 1..7 :
              TotalTrips(SelectSeq(dow_agg.rows, LAMBDA r : r.agg_value = S(DayNames[n])))
                 = Cardinality(StartedOnDay(DayNames[n]))


====
